---------------------------- MODULE Spec2Model ----------------------------
(***************************************************************************)
(* Model of the Embrapa scraping API (api/src):                            *)
(*   - QueryParametersModel   (models/query_params_model.py)               *)
(*   - build_full_url, get_table_headers, get_table_footers,               *)
(*     get_data_table, get_table_sql, scrape_table_content, scrap_content, *)
(*     save_table_sql         (routes/scraping.py)                         *)
(*                                                                         *)
(* Every text of the program (tokens, cell texts, years, URLs, column      *)
(* names) is a sequence of one-character strings, so that the string       *)
(* operations of the code (int(), strip(), replace(), concatenation) are   *)
(* computed and not assumed.  Exception messages are TLA+ strings.         *)
(***************************************************************************)
EXTENDS Integers, Sequences, FiniteSets, TLC

VARIABLES
    request,    \* query-string mapping handed to QueryParametersModel
    outcome,    \* what QueryParametersModel(**data) produced for `request`
    db,         \* snapshot store: table name -> [exists, cols, rows]
    run,        \* save_table_sql calls in flight: run id -> locals of the call
    hv,         \* the scrape_table_content call in flight and its counters
    log,        \* history: every df.to_sql attempt, in the order it was made
    auth        \* the User table, the tokens issued, the last auth call served

vars == <<request, outcome, db, run, hv, log, auth>>

---------------------------------------------------------------------------
(* Texts *)

\* Python's None.  No text equals it: texts hold one-character strings only.
None == <<"None">>

\* Python truthiness of an Optional[str]: None and '' are falsy.
Truthy(x) == x # None /\ x # <<>>

producao == <<"p","r","o","d","u","c","a","o">>
processamento == <<"p","r","o","c","e","s","s","a","m","e","n","t","o">>
comercializacao == <<"c","o","m","e","r","c","i","a","l","i","z","a","c","a","o">>
importacao == <<"i","m","p","o","r","t","a","c","a","o">>
exportacao == <<"e","x","p","o","r","t","a","c","a","o">>

viniferas == <<"v","i","n","i","f","e","r","a","s">>
americanas_e_hibridas == <<"a","m","e","r","i","c","a","n","a","s","_","e","_","h","i","b","r","i","d","a","s">>
uvas_de_mesa == <<"u","v","a","s","_","d","e","_","m","e","s","a">>
sem_classificacao == <<"s","e","m","_","c","l","a","s","s","i","f","i","c","a","c","a","o">>
vinhos_de_mesa == <<"v","i","n","h","o","s","_","d","e","_","m","e","s","a">>
espumantes == <<"e","s","p","u","m","a","n","t","e","s">>
uvas_frescas == <<"u","v","a","s","_","f","r","e","s","c","a","s">>
uvas_passas == <<"u","v","a","s","_","p","a","s","s","a","s">>
suco_de_uva == <<"s","u","c","o","_","d","e","_","u","v","a">>

PARTIAL_URL == <<"h","t","t","p",":","/","/","v","i","t","i","b","r","a","s","i","l",".","c","n","p","u","v",".","e","m","b","r","a","p","a",".","b","r","/","i","n","d","e","x",".","p","h","p","?">>
OpcaoPrefix == <<"o","p","c","a","o","=","o","p","t","_","0">>
SubopcaoPrefix == <<"s","u","b","o","p","c","a","o","=","s","u","b","o","p","t","_","0">>
AnoPrefix == <<"a","n","o","=">>

ColProduto == <<"P","r","o","d","u","t","o">>
ColQuantidadeL == <<"Q","u","a","n","t","i","d","a","d","e"," ","(","L",".",")">>
ColNivel == <<"N","i","v","e","l">>
ColCategoria == <<"C","a","t","e","g","o","r","i","a">>
ColOpcoes == <<"O","p","c","o","e","s">>
ColAno == <<"A","n","o">>
ColPaises == <<"P","a","i","s","e","s">>
ColQuantidadeKg == <<"Q","u","a","n","t","i","d","a","d","e"," ","(","K","g",")">>
ColValor == <<"V","a","l","o","r"," ","(","U","S","$",")">>
NivelItem == <<"i","t","e","m">>
NivelSubitem == <<"s","u","b","i","t","e","m">>
NivelTotal == <<"t","o","t","a","l">>

DigitChars == <<"0","1","2","3","4","5","6","7","8","9">>

IsDigit(c) == \E i \in 1..10 : DigitChars[i] = c

DigitVal(c) == (CHOOSE i \in 1..10 : DigitChars[i] = c) - 1

\* str.strip() / the whitespace int() ignores; the model's only whitespace is " ".
IsSpace(c) == c = " "

RECURSIVE LStrip(_)
LStrip(s) == IF s # <<>> /\ IsSpace(Head(s)) THEN LStrip(Tail(s)) ELSE s

RECURSIVE RStrip(_)
RStrip(s) == IF s # <<>> /\ IsSpace(s[Len(s)]) THEN RStrip(SubSeq(s, 1, Len(s) - 1)) ELSE s

Strip(s) == RStrip(LStrip(s))

\* The digit part of a Python integer literal: digits, single underscores
\* allowed between digits only.
ValidIntBody(s) ==
    /\ s # <<>>
    /\ IsDigit(s[1])
    /\ IsDigit(s[Len(s)])
    /\ \A i \in 1..Len(s) : IsDigit(s[i]) \/ s[i] = "_"
    /\ \A i \in 1..(Len(s) - 1) : ~(s[i] = "_" /\ s[i + 1] = "_")

RECURSIVE DigitsValue(_, _)
DigitsValue(s, acc) ==
    IF s = <<>> THEN acc
    ELSE IF Head(s) = "_" THEN DigitsValue(Tail(s), acc)
    ELSE DigitsValue(Tail(s), acc * 10 + DigitVal(Head(s)))

\* Python int(str): surrounding whitespace ignored, optional sign, then the
\* digit part.  ok = FALSE stands for ValueError.
PyInt(s) ==
    LET t == Strip(s)
        signed == t # <<>> /\ Head(t) \in {"+", "-"}
        body == IF signed THEN Tail(t) ELSE t
    IN  IF ValidIntBody(body)
        THEN [ok |-> TRUE,
              val |-> IF signed /\ Head(t) = "-" THEN 0 - DigitsValue(body, 0)
                      ELSE DigitsValue(body, 0)]
        ELSE [ok |-> FALSE, val |-> 0]

RECURSIVE NatToText(_)
NatToText(n) == IF n < 10 THEN <<DigitChars[n + 1]>>
                ELSE NatToText(n \div 10) \o <<DigitChars[(n % 10) + 1]>>

\* Python str(int) / f'{ano}'
PyStr(n) == IF n < 0 THEN <<"-">> \o NatToText(0 - n) ELSE NatToText(n)

---------------------------------------------------------------------------
(* QueryParametersModel *)

YearMin == 1970
YearMax2024 == 2024
YearMax2023 == 2023
DefaultYear == 2023

\* option_map, in declaration order
OptionNames == <<producao, processamento, comercializacao, importacao, exportacao>>

option_map(o) ==
    CASE o = producao -> OpcaoPrefix \o <<"2">>
      [] o = processamento -> OpcaoPrefix \o <<"3">>
      [] o = comercializacao -> OpcaoPrefix \o <<"4">>
      [] o = importacao -> OpcaoPrefix \o <<"5">>
      [] o = exportacao -> OpcaoPrefix \o <<"6">>

InOptionMap(o) == \E i \in 1..Len(OptionNames) : OptionNames[i] = o

\* year_map
until_2024 == {importacao, exportacao}

until_2023 == {producao, processamento, comercializacao}

\* sub_options_map: the keys of each option's dictionary, in declaration
\* order.
sub_options_keys(o) ==
    CASE o = processamento ->
            <<viniferas, americanas_e_hibridas, uvas_de_mesa, sem_classificacao>>
      [] o = importacao ->
            <<vinhos_de_mesa, espumantes, uvas_frescas, uvas_passas, suco_de_uva>>
      [] o = exportacao ->
            <<vinhos_de_mesa, espumantes, uvas_frescas, suco_de_uva>>
      [] OTHER -> <<>>

InSubOptionsMap(o) == o \in {processamento, importacao, exportacao}

KeyIndex(keys, k) == CHOOSE i \in 1..Len(keys) : keys[i] = k

HasKey(keys, k) == \E i \in 1..Len(keys) : keys[i] = k

\* A slip: exportacao given the codes of importacao's dictionary.
sub_options_value_Shared(o, s) ==
    SubopcaoPrefix \o
        <<DigitChars[KeyIndex(sub_options_keys(IF o = exportacao THEN importacao
                                               ELSE o), s) + 1]>>

\* sub_options_map: the value stored under each key
sub_options_value(o, s) ==
    SubopcaoPrefix \o
    CASE o = processamento ->
           (CASE s = viniferas -> <<"1">>
              [] s = americanas_e_hibridas -> <<"2">>
              [] s = uvas_de_mesa -> <<"3">>
              [] s = sem_classificacao -> <<"4">>)
      [] o = importacao ->
           (CASE s = vinhos_de_mesa -> <<"1">>
              [] s = espumantes -> <<"2">>
              [] s = uvas_frescas -> <<"3">>
              [] s = uvas_passas -> <<"4">>
              [] s = suco_de_uva -> <<"5">>)
      [] o = exportacao ->
           (CASE s = vinhos_de_mesa -> <<"1">>
              [] s = espumantes -> <<"2">>
              [] s = uvas_frescas -> <<"3">>
              [] s = suco_de_uva -> <<"4">>)

\* A validation error: its kind, and what the message names.
Err(kind, lo, hi, allowed) ==
    [kind |-> kind, lo |-> lo, hi |-> hi, allowed |-> allowed]

NoErr == Err("none", 0, 0, <<>>)

Ok(m) == [ok |-> TRUE, m |-> m, err |-> NoErr]

Fail(m, e) == [ok |-> FALSE, m |-> m, err |-> e]

\* The model instance once the fields are set, before the validators run.
NewModel(data) ==
    [option |-> data.option, year |-> data.year, sub_option |-> data.sub_option,
     p_original_option |-> None, p_original_year |-> None,
     p_original_sub_option |-> None]

validate_and_transform_option(m) ==
    IF m.option = None \/ ~InOptionMap(m.option)
    THEN Fail(m, Err("InvalidOption", 0, 0, OptionNames))
    ELSE Ok([m EXCEPT !.p_original_option = m.option,
                      !.option = option_map(m.option)])

\* A plausible slip: one range (the 2024 one) applied to every option.
validate_and_transform_year_OneRange(m) ==
    IF m.year = None
    THEN Ok([m EXCEPT !.p_original_year = PyStr(DefaultYear),
                      !.year = AnoPrefix \o PyStr(DefaultYear)])
    ELSE LET p == PyInt(m.year) IN
         IF ~p.ok THEN Fail(m, Err("InvalidYear", 0, 0, <<>>))
         ELSE IF ~(YearMin <= p.val /\ p.val <= YearMax2024)
         THEN Fail(m, Err("YearOutOfRange", YearMin, YearMax2024, <<>>))
         ELSE Ok([m EXCEPT !.p_original_year = m.year,
                           !.year = AnoPrefix \o m.year])

\* A slip: the parsed year, not the text received, kept as the original.
validate_and_transform_year_Normalised(m) ==
    IF m.year = None
    THEN Ok([m EXCEPT !.p_original_year = PyStr(DefaultYear),
                      !.year = AnoPrefix \o PyStr(DefaultYear)])
    ELSE LET p == PyInt(m.year) IN
         IF ~p.ok THEN Fail(m, Err("InvalidYear", 0, 0, <<>>))
         ELSE IF /\ m.p_original_option \in until_2024
                 /\ ~(YearMin <= p.val /\ p.val <= YearMax2024)
         THEN Fail(m, Err("YearOutOfRange", YearMin, YearMax2024, <<>>))
         ELSE IF /\ m.p_original_option \in until_2023
                 /\ ~(YearMin <= p.val /\ p.val <= YearMax2023)
         THEN Fail(m, Err("YearOutOfRange", YearMin, YearMax2023, <<>>))
         ELSE Ok([m EXCEPT !.p_original_year = PyStr(p.val),
                           !.year = AnoPrefix \o PyStr(p.val)])

validate_and_transform_year(m) ==
    IF m.year = None
    THEN Ok([m EXCEPT !.p_original_year = PyStr(DefaultYear),
                      !.year = AnoPrefix \o PyStr(DefaultYear)])
    ELSE LET p == PyInt(m.year) IN
         IF ~p.ok THEN Fail(m, Err("InvalidYear", 0, 0, <<>>))
         ELSE IF /\ m.p_original_option \in until_2024
                 /\ ~(YearMin <= p.val /\ p.val <= YearMax2024)
         THEN Fail(m, Err("YearOutOfRange", YearMin, YearMax2024, <<>>))
         ELSE IF /\ m.p_original_option \in until_2023
                 /\ ~(YearMin <= p.val /\ p.val <= YearMax2023)
         THEN Fail(m, Err("YearOutOfRange", YearMin, YearMax2023, <<>>))
         ELSE Ok([m EXCEPT !.p_original_year = m.year,
                           !.year = AnoPrefix \o m.year])

\* the key that sorts first among an option's sub-option keys
FirstSorted(o) ==
    CASE o = processamento -> americanas_e_hibridas
      [] o = importacao -> espumantes
      [] o = exportacao -> espumantes

\* A slip: the default is the alphabetically first key, sorted(valids_sub)[0].
validate_and_set_sub_option_SortedDefault(m) ==
    IF InSubOptionsMap(m.p_original_option)
    THEN LET valids_sub == sub_options_keys(m.p_original_option) IN
         IF m.sub_option = None
         THEN Ok([m EXCEPT !.p_original_sub_option = FirstSorted(m.p_original_option),
                           !.sub_option = sub_options_value(m.p_original_option,
                                                            FirstSorted(m.p_original_option))])
         ELSE IF ~HasKey(valids_sub, m.sub_option)
         THEN Fail(m, Err("InvalidSubOption", 0, 0, valids_sub))
         ELSE Ok([m EXCEPT !.p_original_sub_option = m.sub_option,
                           !.sub_option = sub_options_value(m.p_original_option,
                                                            m.sub_option)])
    ELSE IF m.sub_option # None
         THEN Fail(m, Err("SubOptionNotAllowed", 0, 0, <<>>))
         ELSE Ok(m)

\* A slip: 'if self.sub_option:' in place of 'is not None', so that '' counts
\* as absent.
validate_and_set_sub_option_EmptyAsAbsent(m) ==
    IF InSubOptionsMap(m.p_original_option)
    THEN LET valids_sub == sub_options_keys(m.p_original_option) IN
         IF ~Truthy(m.sub_option)
         THEN Ok([m EXCEPT !.p_original_sub_option = valids_sub[1],
                           !.sub_option = sub_options_value(m.p_original_option,
                                                            valids_sub[1])])
         ELSE IF ~HasKey(valids_sub, m.sub_option)
         THEN Fail(m, Err("InvalidSubOption", 0, 0, valids_sub))
         ELSE Ok([m EXCEPT !.p_original_sub_option = m.sub_option,
                           !.sub_option = sub_options_value(m.p_original_option,
                                                            m.sub_option)])
    ELSE IF Truthy(m.sub_option)
         THEN Fail(m, Err("SubOptionNotAllowed", 0, 0, <<>>))
         ELSE Ok(m)

\* A slip: importacao's dictionary consulted for exportacao too.
validate_and_set_sub_option_SharedSet(m) ==
    IF InSubOptionsMap(m.p_original_option)
    THEN LET valids_sub ==
                 sub_options_keys(IF m.p_original_option = exportacao
                                  THEN importacao ELSE m.p_original_option) IN
         IF m.sub_option = None
         THEN Ok([m EXCEPT !.p_original_sub_option = valids_sub[1],
                           !.sub_option = sub_options_value_Shared(m.p_original_option,
                                                            valids_sub[1])])
         ELSE IF ~HasKey(valids_sub, m.sub_option)
         THEN Fail(m, Err("InvalidSubOption", 0, 0, valids_sub))
         ELSE Ok([m EXCEPT !.p_original_sub_option = m.sub_option,
                           !.sub_option = sub_options_value_Shared(m.p_original_option,
                                                            m.sub_option)])
    ELSE IF m.sub_option # None
         THEN Fail(m, Err("SubOptionNotAllowed", 0, 0, <<>>))
         ELSE Ok(m)

validate_and_set_sub_option(m) ==
    IF InSubOptionsMap(m.p_original_option)
    THEN LET valids_sub == sub_options_keys(m.p_original_option) IN
         IF m.sub_option = None
         THEN Ok([m EXCEPT !.p_original_sub_option = valids_sub[1],
                           !.sub_option = sub_options_value(m.p_original_option,
                                                            valids_sub[1])])
         ELSE IF ~HasKey(valids_sub, m.sub_option)
         THEN Fail(m, Err("InvalidSubOption", 0, 0, valids_sub))
         ELSE Ok([m EXCEPT !.p_original_sub_option = m.sub_option,
                           !.sub_option = sub_options_value(m.p_original_option,
                                                            m.sub_option)])
    ELSE IF m.sub_option # None
         THEN Fail(m, Err("SubOptionNotAllowed", 0, 0, <<>>))
         ELSE Ok(m)

\* model_dump(): the three fields and the three computed fields.
model_dump(m) ==
    [option |-> m.option, year |-> m.year, sub_option |-> m.sub_option,
     original_option |-> m.p_original_option,
     original_year |-> m.p_original_year,
     original_sub_option |-> m.p_original_sub_option]

NoParams ==
    [option |-> None, year |-> None, sub_option |-> None,
     original_option |-> None, original_year |-> None,
     original_sub_option |-> None]

\* A slip: the sub-option validator declared before the year validator.
QueryParametersModel_SubFirst(data) ==
    IF data.extra \/ data.option = None
    THEN [ok |-> FALSE, params |-> NoParams,
          err |-> Err(IF data.extra THEN "UnknownParameter" ELSE "MissingOption",
                      0, 0, <<>>)]
    ELSE LET r1 == validate_and_transform_option(NewModel(data))
             r2 == validate_and_set_sub_option(r1.m)
             r3 == validate_and_transform_year(r2.m)
         IN  IF ~r1.ok THEN [ok |-> FALSE, params |-> NoParams, err |-> r1.err]
             ELSE IF ~r2.ok THEN [ok |-> FALSE, params |-> NoParams, err |-> r2.err]
             ELSE IF ~r3.ok THEN [ok |-> FALSE, params |-> NoParams, err |-> r3.err]
             ELSE [ok |-> TRUE, params |-> model_dump(r3.m), err |-> NoErr]

\* A slip: model_config without 'extra': 'forbid', unknown keys ignored.
QueryParametersModel_IgnoreExtra(data) ==
    IF data.option = None
    THEN [ok |-> FALSE, params |-> NoParams,
          err |-> Err("MissingOption", 0, 0, <<>>)]
    ELSE LET r1 == validate_and_transform_option(NewModel(data))
             r2 == validate_and_transform_year(r1.m)
             r3 == validate_and_set_sub_option(r2.m)
         IN  IF ~r1.ok THEN [ok |-> FALSE, params |-> NoParams, err |-> r1.err]
             ELSE IF ~r2.ok THEN [ok |-> FALSE, params |-> NoParams, err |-> r2.err]
             ELSE IF ~r3.ok THEN [ok |-> FALSE, params |-> NoParams, err |-> r3.err]
             ELSE [ok |-> TRUE, params |-> model_dump(r3.m), err |-> NoErr]

\* QueryParametersModel(**data).model_dump().  Field validation comes first
\* (extra = 'forbid', option required); the three 'after' validators then run
\* in declaration order and the first one that raises ends the validation.
QueryParametersModel(data) ==
    IF data.extra \/ data.option = None
    THEN [ok |-> FALSE, params |-> NoParams,
          err |-> Err(IF data.extra THEN "UnknownParameter" ELSE "MissingOption",
                      0, 0, <<>>)]
    ELSE LET r1 == validate_and_transform_option(NewModel(data))
             r2 == validate_and_transform_year(r1.m)
             r3 == validate_and_set_sub_option(r2.m)
         IN  IF ~r1.ok THEN [ok |-> FALSE, params |-> NoParams, err |-> r1.err]
             ELSE IF ~r2.ok THEN [ok |-> FALSE, params |-> NoParams, err |-> r2.err]
             ELSE IF ~r3.ok THEN [ok |-> FALSE, params |-> NoParams, err |-> r3.err]
             ELSE [ok |-> TRUE, params |-> model_dump(r3.m), err |-> NoErr]

---------------------------------------------------------------------------
(* build_full_url *)

\* A slip: the '&' before the sub-option left out.
build_full_url_NoSeparator(parameters_sent) ==
    LET full_url == PARTIAL_URL \o parameters_sent.option \o <<"&">>
                    \o parameters_sent.year
    IN  IF Truthy(parameters_sent.sub_option)
        THEN full_url \o parameters_sent.sub_option
        ELSE full_url

build_full_url(parameters_sent) ==
    LET full_url == PARTIAL_URL \o parameters_sent.option \o <<"&">>
                    \o parameters_sent.year
    IN  IF Truthy(parameters_sent.sub_option)
        THEN full_url \o <<"&">> \o parameters_sent.sub_option
        ELSE full_url

---------------------------------------------------------------------------
(* The upstream page                                                       *)
(*                                                                         *)
(* What requests.get(url) gives: net = "error" is a raised                 *)
(* RequestException (no response); otherwise an HTTP status and a document *)
(* that holds at most one table.  A body row is a sequence of <td> cells,  *)
(* each with its class attribute and its text.                             *)

Cell(cls, text) == [cls |-> cls, text |-> text]

Doc(status, table, thead, headers, tfoot, footers, tbody, rows) ==
    [net |-> "ok", status |-> status, table |-> table, thead |-> thead,
     headers |-> headers, tfoot |-> tfoot, footers |-> footers,
     tbody |-> tbody, rows |-> rows]

NetError == [net |-> "error", status |-> 0, table |-> FALSE, thead |-> FALSE,
             headers |-> <<>>, tfoot |-> "none", footers |-> <<>>,
             tbody |-> FALSE, rows |-> <<>>]

\* get_text(strip=True) and .text.strip() of one cell
CellText(c) == Strip(c.text)

CellsOfClass(row, cls) == SelectSeq(row, LAMBDA c : c.cls = cls)

Texts(cells) == [i \in 1..Len(cells) |-> CellText(cells[i])]

\* An extraction either returns a value or raises.
Returned(v) == [ok |-> TRUE, value |-> v, exc |-> "none"]

Raised(e) == [ok |-> FALSE, value |-> <<>>, exc |-> e]

---------------------------------------------------------------------------
(* get_table_headers, get_table_footers, get_data_table *)

\* table is None when the document holds no 'tb_base tb_dados' table.
get_table_headers(page) ==
    IF ~page.table \/ ~page.thead
    THEN Raised("AttributeError: 'NoneType' object has no attribute 'find'")
    ELSE Returned(page.headers)

get_table_footers(page) ==
    IF ~page.table \/ page.tfoot # "tb_total"
    THEN Raised("AttributeError: 'NoneType' object has no attribute 'find'")
    ELSE Returned(page.footers)

\* A Python dict as the sequence of its (key, value) pairs in insertion
\* order; assigning to a key that is present keeps its place.
DictHas(d, k) == \E i \in 1..Len(d) : d[i][1] = k

DictIndex(d, k) == CHOOSE i \in 1..Len(d) : d[i][1] = k

DictSet(d, k, v) ==
    IF DictHas(d, k) THEN [d EXCEPT ![DictIndex(d, k)] = <<k, v>>]
    ELSE Append(d, <<k, v>>)

DictGet(d, k) == d[DictIndex(d, k)][2]

CategoryKey(product, quantity) == product \o <<" ", ":", " ">> \o quantity

\* A slip: items_dict.setdefault(current_category, {}), so that a repeated
\* category keeps the sub-items it already has.
CategoryRowStep_SetDefault(st, row) ==
    IF st.raised THEN st
    ELSE
    LET items == Texts(CellsOfClass(row, "tb_item"))
        st1 == IF Len(items) >= 2
               THEN [st EXCEPT
                       !.current_category = CategoryKey(items[1], items[2]),
                       !.items_dict =
                           IF DictHas(st.items_dict,
                                      CategoryKey(items[1], items[2]))
                           THEN st.items_dict
                           ELSE DictSet(st.items_dict,
                                        CategoryKey(items[1], items[2]), <<>>)]
               ELSE st
        subs == Texts(CellsOfClass(row, "tb_subitem"))
    IN  IF Len(subs) >= 2
        THEN IF st1.current_category = None
             THEN [st1 EXCEPT !.raised = TRUE]     \* items_dict[None]: KeyError
             ELSE [st1 EXCEPT !.items_dict =
                       DictSet(st1.items_dict, st1.current_category,
                               DictSet(DictGet(st1.items_dict,
                                               st1.current_category),
                                       subs[1], subs[2]))]
        ELSE st1

\* One pass of the category loop body over a row.  st holds items_dict,
\* current_category and whether an exception has been raised.
CategoryRowStep(st, row) ==
    IF st.raised THEN st
    ELSE
    LET items == Texts(CellsOfClass(row, "tb_item"))
        st1 == IF Len(items) >= 2
               THEN [st EXCEPT
                       !.current_category = CategoryKey(items[1], items[2]),
                       !.items_dict = DictSet(st.items_dict,
                                              CategoryKey(items[1], items[2]),
                                              <<>>)]
               ELSE st
        subs == Texts(CellsOfClass(row, "tb_subitem"))
    IN  IF Len(subs) >= 2
        THEN IF st1.current_category = None
             THEN [st1 EXCEPT !.raised = TRUE]     \* items_dict[None]: KeyError
             ELSE [st1 EXCEPT !.items_dict =
                       DictSet(st1.items_dict, st1.current_category,
                               DictSet(DictGet(st1.items_dict,
                                               st1.current_category),
                                       subs[1], subs[2]))]
        ELSE st1

RECURSIVE CategoryLoop(_, _)
CategoryLoop(st, rows) ==
    IF rows = <<>> THEN st
    ELSE CategoryLoop(CategoryRowStep(st, Head(rows)), Tail(rows))

\* A slip: 'len(temporary_list) == 3', so that a row of four cells is skipped.
RECURSIVE CountryLoop_ExactlyThree(_, _)
CountryLoop_ExactlyThree(items_list, rows) ==
    IF rows = <<>> THEN items_list
    ELSE LET temporary_list == Texts(Head(rows))
         IN  CountryLoop_ExactlyThree(IF Len(temporary_list) = 3
                                      THEN Append(items_list,
                                                  <<temporary_list[1],
                                                    temporary_list[2],
                                                    temporary_list[3]>>)
                                      ELSE items_list,
                                      Tail(rows))

RECURSIVE CountryLoop(_, _)
CountryLoop(items_list, rows) ==
    IF rows = <<>> THEN items_list
    ELSE LET temporary_list == Texts(Head(rows))
         IN  CountryLoop(IF Len(temporary_list) >= 3
                         THEN Append(items_list,
                                     <<temporary_list[1], temporary_list[2],
                                       temporary_list[3]>>)
                         ELSE items_list,
                         Tail(rows))

get_data_table(parameters_sent, page) ==
    IF ~page.table \/ ~page.tbody
    THEN Raised("AttributeError: 'NoneType' object has no attribute 'find_all'")
    ELSE IF parameters_sent.original_option
              \in {producao, processamento, comercializacao}
    THEN LET st == CategoryLoop([items_dict |-> <<>>, current_category |-> None,
                                 raised |-> FALSE], page.rows)
         IN  IF st.raised THEN Raised("KeyError: None")
             ELSE Returned(st.items_dict)
    ELSE Returned(CountryLoop(<<>>, page.rows))

---------------------------------------------------------------------------
(* The snapshot store                                                      *)
(*                                                                         *)
(* One table per option, named by the option.  A stored row is a record of *)
(* its columns; Quantidade is "Quantidade (L.)" or "Quantidade (Kg)" and   *)
(* Valor is "Valor (US$)".  Rows come back in the order they were written. *)

NoTable == [exists |-> FALSE, rows |-> <<>>]

\* DataFrame.to_sql(name, engine, if_exists = mode, index = False)
to_sql(store, name, df, mode) ==
    IF mode = "replace" \/ ~store[name].exists
    THEN [store EXCEPT ![name] = [exists |-> TRUE, rows |-> df]]
    ELSE [store EXCEPT ![name] = [exists |-> TRUE, rows |-> @.rows \o df]]

---------------------------------------------------------------------------
(* save_table_sql: the body of one iteration, from the fetch to the frame  *)

\* 'Limpa quantidades': q.replace('.', '') if q != '-' else '0'
CleanQuantity(q) ==
    IF q # <<"-">> THEN SelectSeq(q, LAMBDA c : c # ".") ELSE <<"0">>

\* producao / comercializacao / processamento: the loop over tbody's rows.
\* st holds the lists built so far (as one list of rows), current_category
\* and the nivel of the last row taken.
RECURSIVE CategoryFrameLoop(_, _)
CategoryFrameLoop(st, rows) ==
    IF rows = <<>> THEN st
    ELSE LET cells == Head(rows) IN
         IF Len(cells) < 2 THEN CategoryFrameLoop(st, Tail(rows))
         ELSE
         LET produto == CellText(cells[1])
             quantidade == CellText(cells[2])
             isItem == cells[1].cls = "tb_item"
             nivel == IF isItem THEN NivelItem ELSE NivelSubitem
             cat == IF isItem THEN produto ELSE st.current_category
             rec == [Produto |-> produto, Quantidade |-> quantidade,
                     Nivel |-> nivel,
                     Categoria |-> IF nivel = NivelSubitem THEN cat ELSE None]
         IN  CategoryFrameLoop([recs |-> Append(st.recs, rec),
                                current_category |-> cat,
                                nivel |-> nivel],
                               Tail(rows))

\* A slip: a row with fewer than three cells is skipped instead of read.
RECURSIVE CountryFrameLoop_SkipShort(_, _)
CountryFrameLoop_SkipShort(st, rows) ==
    IF rows = <<>> THEN st
    ELSE LET cells == Head(rows) IN
         IF Len(cells) < 3 THEN CountryFrameLoop_SkipShort(st, Tail(rows))
         ELSE CountryFrameLoop_SkipShort(
                 [st EXCEPT !.recs = Append(@, [Paises |-> CellText(cells[1]),
                                                Quantidade |-> CellText(cells[2]),
                                                Valor |-> CellText(cells[3])])],
                 Tail(rows))

RECURSIVE CountryFrameLoop(_, _)
CountryFrameLoop(st, rows) ==
    IF rows = <<>> \/ st.raised THEN st
    ELSE LET cells == Head(rows) IN
         IF Len(cells) < 2 THEN CountryFrameLoop(st, Tail(rows))
         ELSE IF Len(cells) < 3
         THEN [st EXCEPT !.raised = TRUE]          \* cells[2]: IndexError
         ELSE CountryFrameLoop(
                 [st EXCEPT !.recs = Append(@, [Paises |-> CellText(cells[1]),
                                                Quantidade |-> CellText(cells[2]),
                                                Valor |-> CellText(cells[3])])],
                 Tail(rows))

\* The data frame one iteration builds from the page it fetched, or the
\* exception that ends the iteration.  exc = "RequestException" is the first
\* except clause, anything else the second.
BuildFrame(opcao, ano, sub_opt, page) ==
    IF page.net = "error"
    THEN Raised("RequestException")              \* requests.get raised
    ELSE IF page.status >= 400
    THEN Raised("RequestException")              \* raise_for_status()
    ELSE IF ~page.tbody
    THEN Raised("AttributeError")
    ELSE IF opcao \in {producao, comercializacao, processamento}
    THEN LET st == CategoryFrameLoop([recs |-> <<>>, current_category |-> None,
                                      nivel |-> None],
                                     page.rows)
         IN  IF page.tfoot = "none" THEN Raised("AttributeError")
             ELSE IF Len(page.footers) < 2 THEN Raised("IndexError")
             ELSE IF opcao = processamento /\ st.nivel = None
             THEN Raised("UnboundLocalError")    \* nivel read before any row set it
             ELSE
             LET total == [Produto |-> Strip(page.footers[1]),
                           Quantidade |-> Strip(page.footers[2]),
                           Nivel |-> NivelTotal, Categoria |-> None]
                 all == Append(st.recs, total)
             IN  Returned(
                   [i \in 1..Len(all) |->
                      IF opcao = processamento
                      THEN [Produto |-> all[i].Produto,
                            Quantidade |-> CleanQuantity(all[i].Quantidade),
                            Nivel |-> all[i].Nivel,
                            Categoria |-> all[i].Categoria,
                            Opcoes |-> sub_opt, Ano |-> ano]
                      ELSE [Produto |-> all[i].Produto,
                            Quantidade |-> CleanQuantity(all[i].Quantidade),
                            Nivel |-> all[i].Nivel,
                            Categoria |-> all[i].Categoria, Ano |-> ano]])
    ELSE LET st == CountryFrameLoop([recs |-> <<>>, raised |-> FALSE], page.rows)
         IN  IF st.raised THEN Raised("IndexError")
             ELSE IF page.tfoot = "none" THEN Raised("AttributeError")
             ELSE IF Len(page.footers) < 3 THEN Raised("IndexError")
             ELSE
             LET total == [Paises |-> Strip(page.footers[1]),
                           Quantidade |-> Strip(page.footers[2]),
                           Valor |-> Strip(page.footers[3])]
                 all == Append(st.recs, total)
             IN  Returned(
                   [i \in 1..Len(all) |->
                      [Paises |-> all[i].Paises,
                       Quantidade |-> CleanQuantity(all[i].Quantidade),
                       Valor |-> all[i].Valor,
                       Categoria |-> sub_opt, Ano |-> ano]])

---------------------------------------------------------------------------
(* get_table_sql *)

\* The year as the database reads it in WHERE "Ano" = {original_year}:
\* blanks around it and a sign are accepted, an underscore is a syntax error.
SqlYear(text) ==
    IF \E i \in 1..Len(text) : text[i] = "_" THEN [ok |-> FALSE, val |-> 0]
    ELSE PyInt(text)

SqlResult(headers, footers, rows) ==
    [ok |-> TRUE, headers |-> headers, footers |-> footers, rows |-> rows,
     msg |-> "none"]

\* return jsonify({"error": str(e)}), 500
SqlError(msg) ==
    [ok |-> FALSE, headers |-> <<>>, footers |-> <<>>, rows |-> <<>>,
     msg |-> msg]

\* The rows pd.read_sql returns: the WHERE clause over the table, in stored
\* order.
QueryRows(parametros, table, year) ==
    SelectSeq(table.rows,
              LAMBDA r :
                 /\ r.Ano = year
                 /\ \/ parametros.original_option \in {producao, comercializacao}
                    \/ ~Truthy(parametros.original_sub_option)
                    \/ r.Categoria = parametros.original_sub_option)

\* for idx, row in df.head(df.shape[0]-2).iterrows(): if idx == 0: continue
DataPositions(n) == {i \in 1..n : i <= n - 2 /\ i # 1}

SelectedValues(parametros, r) ==
    IF parametros.original_option \in {importacao, exportacao}
    THEN <<r.Paises, r.Quantidade, r.Valor>>
    ELSE <<r.Produto, r.Quantidade, r.Nivel, r.Categoria>>

SelectedColumns(parametros) ==
    IF parametros.original_option \in {importacao, exportacao}
    THEN <<ColPaises, ColQuantidadeKg, ColValor>>
    ELSE <<ColProduto, ColQuantidadeL, ColNivel, ColCategoria>>

\* A slip: the footers are read from df.head(1) instead of df.tail(1).
get_table_sql_FootersFromHead(parametros, store, connected) ==
    LET table == store[parametros.original_option]
        year == SqlYear(parametros.original_year)
    IN  IF ~connected THEN SqlError("OperationalError: could not connect")
        ELSE IF ~table.exists
        THEN SqlError("ProgrammingError: relation does not exist")
        ELSE IF ~year.ok THEN SqlError("ProgrammingError: syntax error")
        ELSE
        LET df == QueryRows(parametros, table, year.val)
            n == Len(df)
            keep == DataPositions(n)
            dados_finais ==
                [k \in 1..Cardinality(keep) |->
                    SelectedValues(parametros, df[k + 1])]
        IN  IF n = 0
            THEN SqlError("IndexError: single positional indexer is out-of-bounds")
            ELSE SqlResult(SelectedColumns(parametros),
                           SelectedValues(parametros, df[1]),
                           dados_finais)

\* connected = FALSE: the engine cannot reach the database.
get_table_sql(parametros, store, connected) ==
    LET table == store[parametros.original_option]
        year == SqlYear(parametros.original_year)
    IN  IF ~connected THEN SqlError("OperationalError: could not connect")
        ELSE IF ~table.exists
        THEN SqlError("ProgrammingError: relation does not exist")
        ELSE IF ~year.ok THEN SqlError("ProgrammingError: syntax error")
        ELSE
        LET df == QueryRows(parametros, table, year.val)
            n == Len(df)
            keep == DataPositions(n)
            dados_finais ==
                [k \in 1..Cardinality(keep) |->
                    SelectedValues(parametros, df[k + 1])]
        IN  IF n = 0
            THEN SqlError("IndexError: single positional indexer is out-of-bounds")
            ELSE SqlResult(SelectedColumns(parametros),       \* list(df.head(1))
                           SelectedValues(parametros, df[n]), \* df.tail(1).iloc[0]
                           dados_finais)

---------------------------------------------------------------------------
(* scrape_table_content *)

\* A slip: a body that cannot be extracted is taken as an empty body.
LiveExtract_BodyUnchecked(parameters_sent, page) ==
    IF page.net = "error" THEN Raised("RequestException")
    ELSE LET h == get_table_headers(page)
             f == get_table_footers(page)
             d == get_data_table(parameters_sent, page)
         IN  IF ~h.ok THEN Raised(h.exc)
             ELSE IF ~f.ok THEN Raised(f.exc)
             ELSE Returned(<<h.value, f.value, d.value>>)

\* The inner try block after requests.get returned or raised: the table is
\* located and headers, footers and body are extracted, in that order.
LiveExtract(parameters_sent, page) ==
    IF page.net = "error" THEN Raised("RequestException")
    ELSE LET h == get_table_headers(page)
             f == get_table_footers(page)
             d == get_data_table(parameters_sent, page)
         IN  IF ~h.ok THEN Raised(h.exc)
             ELSE IF ~f.ok THEN Raised(f.exc)
             ELSE IF ~d.ok THEN Raised(d.exc)
             ELSE Returned(<<h.value, f.value, d.value>>)

\* The JSON body and status of a response of scrape_table_content.
DataResponse(parameters_sent, headers, footers, rows) ==
    [status |-> 200, kind |-> "data",
     original_option |-> parameters_sent.original_option,
     original_year |-> parameters_sent.original_year,
     original_sub_option |-> parameters_sent.original_sub_option,
     headers |-> headers, footers |-> footers, rows |-> rows,
     error |-> "none"]

ErrorResponse(status, msg) ==
    [status |-> status, kind |-> "error",
     original_option |-> None, original_year |-> None,
     original_sub_option |-> None,
     headers |-> <<>>, footers |-> <<>>, rows |-> <<>>, error |-> msg]

NoResponse == ErrorResponse(0, "none")

\* table_headers, table_footers, data_table = get_table_sql(parameters_sent)
\* and what follows it.  The error return of get_table_sql is a pair
\* (response, 500): unpacking it into three names raises ValueError, which
\* the outer except turns into jsonify({"error": str(e)}) with the default
\* status.
FallbackResponse(parameters_sent, sql) ==
    IF sql.ok
    THEN DataResponse(parameters_sent, sql.headers, sql.footers, sql.rows)
    ELSE ErrorResponse(200, "not enough values to unpack (expected 3, got 2)")

---------------------------------------------------------------------------
(* save_table_sql: the loop *)

FirstYear == 1970
StopYear == 2025
SkippedYear == 2024

\* for ano in range(1970, 2025): the years the model runs the loop over are
\* the first YearWindow years of the range and its last YearWindow + 1 years;
\* the loop body does not tell the years in between from these.
YearWindow == 1

LoopYears ==
    {y \in FirstYear..(StopYear - 1) :
        y < FirstYear + YearWindow \/ y >= StopYear - 1 - YearWindow}

RECURSIVE Ascending(_)
Ascending(S) ==
    IF S = {} THEN <<>>
    ELSE LET m == CHOOSE x \in S : \A y \in S : x <= y
         IN  <<m>> \o Ascending(S \ {m})

dict_options(opcao) == option_map(opcao)

\* the list each 'for sub_opt in [...]' runs over
BulkSubOptions(opcao) ==
    IF opcao = processamento
    THEN <<viniferas, americanas_e_hibridas, uvas_de_mesa, sem_classificacao>>
    ELSE <<vinhos_de_mesa, espumantes, uvas_frescas, uvas_passas, suco_de_uva>>

\* dict_sub_opt_1 maps every key to 'subopt_01'; dict_sub_opt_2 maps the
\* k-th key to 'subopt_0k'.
dict_sub_opt(opcao, sub_opt) ==
    IF opcao = processamento THEN <<"s","u","b","o","p","t","_","0","1">>
    ELSE <<"s","u","b","o","p","t","_","0">>
         \o <<DigitChars[KeyIndex(BulkSubOptions(opcao), sub_opt) + 1]>>

\* parameters_sent as an iteration builds it
BulkParameters(opcao, ano, sub_opt) ==
    [option |-> dict_options(opcao),
     year |-> AnoPrefix \o PyStr(ano),
     sub_option |-> IF sub_opt = None THEN None
                    ELSE <<"s","u","b","o","p","c","a","o","=">>
                         \o dict_sub_opt(opcao, sub_opt),
     original_option |-> opcao,
     original_year |-> ano,
     original_sub_option |-> sub_opt]

SubIterations(opcao, ano) ==
    [k \in 1..Len(BulkSubOptions(opcao)) |->
        [ano |-> ano, sub_opt |-> BulkSubOptions(opcao)[k]]]

\* The iterations the body of 'for ano' makes for one year.  The two elif
\* branches belong to 'if ano != 2024'.
IterationsOfYear(opcao, ano) ==
    IF ano # SkippedYear
    THEN IF opcao \in {producao, comercializacao}
         THEN <<[ano |-> ano, sub_opt |-> None]>>
         ELSE <<>>
    ELSE IF opcao \in {processamento}
    THEN IF ano # SkippedYear THEN SubIterations(opcao, ano) ELSE <<>>
    ELSE IF opcao \in {importacao, exportacao}
    THEN SubIterations(opcao, ano)
    ELSE <<>>

RECURSIVE IterationsOver(_, _)
IterationsOver(opcao, years) ==
    IF years = <<>> THEN <<>>
    ELSE IterationsOfYear(opcao, Head(years)) \o IterationsOver(opcao, Tail(years))

\* every (ano, sub_opt) the run attempts, in order
Iterations(opcao) == IterationsOver(opcao, Ascending(LoopYears))

\* what anos_processados.append(...) appends
ProcessedEntry(opcao, it) ==
    IF opcao \in {producao, comercializacao} THEN it.ano
    ELSE <<it.ano, it.sub_opt>>

ErrorEntry(exc) ==
    IF exc = "RequestException" THEN "Erro na requisicao HTTP"
    ELSE "Erro ao processar os dados"

\* A slip: the exception of a failed iteration is not caught and ends the loop.
Iterate_Abort(loc, store, page, writeOk) ==
    LET it == Iterations(loc.opcao)[loc.i]
        frame == BuildFrame(loc.opcao, it.ano, it.sub_opt, page)
        mode == IF loc.fg = 0 THEN "replace" ELSE "append"
    IN  IF ~frame.ok \/ ~writeOk
        THEN [loc |-> [loc EXCEPT !.errors = Append(@, ErrorEntry(frame.exc)),
                                  !.i = Len(Iterations(loc.opcao)) + 1],
              store |-> store,
              outcome |-> IF ~frame.ok THEN frame.exc ELSE "write_failed",
              mode |-> IF ~frame.ok THEN "none" ELSE mode]
        ELSE [loc |-> [loc EXCEPT !.anos_processados =
                                      Append(@, ProcessedEntry(loc.opcao, it)),
                                  !.fg = IF loc.fg = 0 THEN 1 ELSE @,
                                  !.i = @ + 1],
              store |-> to_sql(store, loc.opcao, frame.value, mode),
              outcome |-> "written", mode |-> mode]

\* A slip: fg is raised before the first to_sql, so also when it fails.
Iterate_FgEarly(loc, store, page, writeOk) ==
    LET it == Iterations(loc.opcao)[loc.i]
        frame == BuildFrame(loc.opcao, it.ano, it.sub_opt, page)
        mode == IF loc.fg = 0 THEN "replace" ELSE "append"
    IN  IF ~frame.ok
        THEN [loc |-> [loc EXCEPT !.errors = Append(@, ErrorEntry(frame.exc)),
                                  !.i = @ + 1],
              store |-> store, outcome |-> frame.exc, mode |-> "none"]
        ELSE IF ~writeOk
        THEN [loc |-> [loc EXCEPT !.errors = Append(@, ErrorEntry("Exception")),
                                  !.fg = IF loc.fg = 0 THEN 1 ELSE @,
                                  !.i = @ + 1],
              store |-> store, outcome |-> "write_failed", mode |-> mode]
        ELSE [loc |-> [loc EXCEPT !.anos_processados =
                                      Append(@, ProcessedEntry(loc.opcao, it)),
                                  !.fg = IF loc.fg = 0 THEN 1 ELSE @,
                                  !.i = @ + 1],
              store |-> to_sql(store, loc.opcao, frame.value, mode),
              outcome |-> "written", mode |-> mode]

\* One iteration: the try block and its two except clauses.  loc holds the
\* locals of the call (i is the position in Iterations), page is what the
\* fetch gave, writeOk = FALSE is a to_sql that raises.  Gives the new
\* locals, the new store, and what happened (for the history).
Iterate(loc, store, page, writeOk) ==
    LET it == Iterations(loc.opcao)[loc.i]
        frame == BuildFrame(loc.opcao, it.ano, it.sub_opt, page)
        mode == IF loc.fg = 0 THEN "replace" ELSE "append"
    IN  IF ~frame.ok
        THEN [loc |-> [loc EXCEPT !.errors = Append(@, ErrorEntry(frame.exc)),
                                  !.i = @ + 1],
              store |-> store, outcome |-> frame.exc, mode |-> "none"]
        ELSE IF ~writeOk
        THEN [loc |-> [loc EXCEPT !.errors = Append(@, ErrorEntry("Exception")),
                                  !.i = @ + 1],
              store |-> store, outcome |-> "write_failed", mode |-> mode]
        ELSE [loc |-> [loc EXCEPT !.anos_processados =
                                      Append(@, ProcessedEntry(loc.opcao, it)),
                                  !.fg = IF loc.fg = 0 THEN 1 ELSE @,
                                  !.i = @ + 1],
              store |-> to_sql(store, loc.opcao, frame.value, mode),
              outcome |-> "written", mode |-> mode]

\* The response of save_table_sql
BulkResponse(loc) ==
    [status |-> 200, opcao |-> loc.opcao,
     anos_processados |-> loc.anos_processados,
     errors |-> IF loc.errors # <<>> THEN loc.errors ELSE None]

BadOptionResponse(opcao) ==
    [status |-> 400, opcao |-> opcao, anos_processados |-> <<>>,
     errors |-> None]

NoBulkResponse ==
    [status |-> 0, opcao |-> None, anos_processados |-> <<>>, errors |-> None]

---------------------------------------------------------------------------
(* The environment: what the upstream site may answer, what a client may   *)
(* send                                                                    *)

TxtA == <<"A">>
TxtB == <<"B">>
TxtC == <<"C">>
TxtTotal == <<"T","o","t","a","l">>
Qty7 == <<" ","7"," ">>
Qty1500 == <<"1",".","5","0","0">>
Qty2000 == <<"2",".","0","0","0">>
QtyNone == <<"-">>

ItemRow(p, q) == <<Cell("tb_item", p), Cell("tb_item", q)>>

SubitemRow(p, q) == <<Cell("tb_subitem", p), Cell("tb_subitem", q)>>

CountryRow(c, q, v) == <<Cell("", c), Cell("", q), Cell("", v)>>

CategoryDoc(rows) ==
    Doc(200, TRUE, TRUE, <<ColProduto, ColQuantidadeL>>, "tb_total",
        <<TxtTotal, Qty2000>>, TRUE, rows)

CountryDoc(rows) ==
    Doc(200, TRUE, TRUE, <<ColPaises, ColQuantidadeKg, ColValor>>, "tb_total",
        <<TxtTotal, Qty2000, Qty1500>>, TRUE, rows)

PageCat1 == CategoryDoc(<<ItemRow(TxtA, Qty2000)>>)

PageCat2 == CategoryDoc(<<ItemRow(TxtA, Qty2000), SubitemRow(TxtB, Qty2000)>>)

PageCat3 ==
    CategoryDoc(<<ItemRow(TxtA, Qty1500), SubitemRow(TxtB, Qty1500),
                  SubitemRow(TxtC, QtyNone)>>)

\* a one-cell row, and a sub-item row before any item row
PageCatOrphan ==
    CategoryDoc(<<<<Cell("tb_item", TxtA)>>, SubitemRow(TxtB, Qty7),
                  ItemRow(TxtA, Qty7)>>)

PageCty1 == CountryDoc(<<CountryRow(TxtA, Qty2000, Qty1500)>>)

PageCty2 ==
    CountryDoc(<<CountryRow(TxtA, Qty1500, Qty1500),
                 CountryRow(TxtB, QtyNone, QtyNone)>>)

PageCty3 ==
    CountryDoc(<<CountryRow(TxtA, Qty7, Qty7), CountryRow(TxtB, Qty1500, Qty1500),
                 CountryRow(TxtC, QtyNone, QtyNone)>>)

\* a row of two cells among the rows
PageCtyShort ==
    CountryDoc(<<CountryRow(TxtA, Qty7, Qty7),
                 <<Cell("", TxtB), Cell("", Qty7)>>>>)

\* an error page: status 500 and no table
PageError == Doc(500, FALSE, FALSE, <<>>, "none", <<>>, FALSE, <<>>)

IsCountryOption(o) == o \in {importacao, exportacao}

\* Bodies of a category page: every sequence of at most MaxRows rows drawn
\* from item rows (two of them with equal label and value texts once
\* stripped, one with the same label and another value), sub-item rows (two
\* with the same label), and rows that have one relevant cell only.
MaxRows == 3

BodyRows ==
    {ItemRow(TxtA, Qty7), ItemRow(TxtA, Qty1500), ItemRow(TxtB, Qty7),
     <<Cell("tb_item", TxtC)>>,
     SubitemRow(TxtB, Qty7), SubitemRow(TxtB, Qty2000), SubitemRow(TxtC, QtyNone),
     <<Cell("tb_subitem", TxtA)>>}

BodyPages ==
    {CategoryDoc(rows) : rows \in UNION {[1..k -> BodyRows] : k \in 0..MaxRows}}

\* Bodies of a country page: rows of three cells, of four, of two, and a row
\* without any cell.
CountryBodyRows ==
    {CountryRow(TxtA, Qty7, Qty1500), CountryRow(TxtB, QtyNone, QtyNone),
     CountryRow(TxtC, Qty2000, Qty7) \o <<Cell("", TxtTotal)>>,
     <<Cell("", TxtB), Cell("", Qty7)>>,
     <<>>}

CountryBodyPages ==
    {CountryDoc(rows) :
        rows \in UNION {[1..k -> CountryBodyRows] : k \in 0..MaxRows}}

BodyPagesOf(o) == IF IsCountryOption(o) THEN CountryBodyPages ELSE BodyPages

\* what a fetch for an option may give
Pages(opcao) ==
    IF IsCountryOption(opcao)
    THEN {NetError, PageError, PageCty1, PageCty2, PageCty3, PageCtyShort}
    ELSE {NetError, PageError, PageCat1, PageCat2, PageCat3, PageCatOrphan}

\* what the fetches of a run may give when every write failure is also
\* considered: a fetch that raises, a page the iteration cannot take, and a
\* page it can
BulkPages(opcao) ==
    IF IsCountryOption(opcao) THEN {NetError, PageCtyShort, PageCty2}
    ELSE {NetError, PageError, PageCat2}

\* what the fetch of iteration `it` may give in the run that fills the store
\* before harvest calls are served: every size of page for the year and
\* sub-option the harvest calls ask for most, one page for the others
SeedPages(opcao, it) ==
    IF IsCountryOption(opcao)
    THEN IF it.sub_opt = vinhos_de_mesa
         THEN {NetError, PageCty1, PageCty2, PageCty3}
         ELSE IF it.sub_opt = espumantes THEN {NetError, PageCty3}
         ELSE {PageCty1}
    ELSE IF it.ano = DefaultYear
         THEN {NetError, PageCat1, PageCat2, PageCat3, PageCatOrphan}
         ELSE {PageCat2}

\* Years a client sends: the integers within YearMargin of the ends of the
\* two ranges, as str() writes them, and texts int() treats specially.
YearMargin == 1

YearNumbers ==
    ((YearMin - YearMargin)..(YearMin + YearMargin))
        \cup ((YearMax2023 - YearMargin)..(YearMax2024 + YearMargin))

YearTexts ==
    {PyStr(y) : y \in YearNumbers}
        \cup {<<" ">> \o PyStr(YearMax2024), <<"+">> \o PyStr(YearMax2023),
              <<"-">> \o PyStr(YearMin), <<"2","_","0","2","3">>,
              <<"2","0","2","3",".","0">>, <<"a","n","o">>, <<>>,
              <<"2","0","2","3","_">>}

NotAnOption == <<"v","i","n","h","o","s">>

NotASubOption == <<"r","o","s","a","d","o","s">>

Requests ==
    [option : {OptionNames[i] : i \in 1..Len(OptionNames)} \cup {NotAnOption, None},
     year : YearTexts \cup {None},
     sub_option : {None, <<>>, NotASubOption, viniferas, americanas_e_hibridas,
                   uvas_de_mesa, sem_classificacao, vinhos_de_mesa, espumantes,
                   uvas_frescas, uvas_passas, suco_de_uva},
     extra : BOOLEAN]

\* the requests of the harvest calls
HarvestRequests ==
    [option : {OptionNames[i] : i \in 1..Len(OptionNames)},
     year : {None, PyStr(YearMin), PyStr(YearMax2024)},
     sub_option : {None, vinhos_de_mesa, espumantes},
     extra : {FALSE}]

RunIds == {1, 2}

Pending == [ok |-> FALSE, params |-> NoParams, err |-> Err("pending", 0, 0, <<>>)]

NoRequest == [option |-> None, year |-> None, sub_option |-> None, extra |-> FALSE]

IdleRun ==
    [pc |-> "idle", opcao |-> None, i |-> 1, fg |-> 0,
     anos_processados |-> <<>>, errors |-> <<>>, response |-> NoBulkResponse]

IdleHarvest ==
    [pc |-> "idle", params |-> NoParams, url |-> <<>>, page |-> NetError,
     fetches |-> 0, queries |-> 0, queried |-> NoParams,
     sql |-> SqlError("none"), response |-> NoResponse]

EmptyStore == [o \in {OptionNames[i] : i \in 1..Len(OptionNames)} |-> NoTable]

---------------------------------------------------------------------------
(* Accounts: routes/auth.py over the User table of models.py *)

\* Registrations the model follows (the id sequence stops there).
MaxUsers == 2

\* the names clients register under: a word and two numerals
Usernames == {<<"a","n","a">>, <<"1">>, <<"2">>}

\* request.args.to_dict() of an auth call: a key that is absent is None
Credentials ==
    [username : Usernames \cup {None},
     password : {<<"p">>, <<"p"," ">>, <<"q">>, None}]

NoCall == [op |-> "none", username |-> None, password |-> None, identity |-> None]

AuthResponse(status, body, token) == [status |-> status, body |-> body, token |-> token]

NoAuth ==
    [users |-> {}, next_id |-> 1, tokens |-> {}, call |-> NoCall, before |-> {},
     response |-> AuthResponse(0, "none", None)]

\* what a query gives when no row matches: Python's None
NoUser == [id |-> 0, username |-> None, password |-> None]

\* User.query.filter_by(username=...).first(): username is unique
FirstByUsername(users, username) ==
    IF \E u \in users : u.username = username
    THEN CHOOSE u \in users : u.username = username
    ELSE NoUser

\* User.query.get(ident): the row whose primary key id equals ident.  The
\* text is sent as it is and PostgreSQL casts it to the integer column: a
\* numeral selects the row with that id (None when there is none); any other
\* text fails the statement (DataError).
QueryGet(users, ident) ==
    LET pk == PyInt(ident)
    IN  IF ~pk.ok THEN Raised("DataError: invalid input syntax for type integer")
        ELSE IF \E u \in users : u.id = pk.val
        THEN Returned(CHOOSE u \in users : u.id = pk.val)
        ELSE Returned(NoUser)

\* create_access_token(identity=...): the token carries the identity
create_access_token(identity) == identity

\* POST /register
register(data, commitOk) ==
    /\ auth.next_id <= MaxUsers
    /\ LET served(users, next_id, response) ==
               auth' = [auth EXCEPT !.users = users, !.next_id = next_id,
                                    !.before = auth.users,
                                    !.call = [op |-> "register",
                                              username |-> data.username,
                                              password |-> data.password,
                                              identity |-> None],
                                    !.response = response]
       IN  IF data.username = None \/ data.password = None
           THEN served(auth.users, auth.next_id,
                       AuthResponse(400, "Missing username or password", None))
           ELSE IF FirstByUsername(auth.users, data.username) # NoUser
           THEN served(auth.users, auth.next_id,
                       AuthResponse(409, "User already exists", None))
           ELSE IF commitOk
           THEN served(auth.users \cup {[id |-> auth.next_id,
                                         username |-> data.username,
                                         password |-> data.password]},
                       auth.next_id + 1, AuthResponse(201, "User created", None))
           ELSE served(auth.users, auth.next_id,
                       AuthResponse(500, "OperationalError", None))
    /\ UNCHANGED <<request, outcome, db, run, hv, log>>

\* POST /login.  user is None for an unknown username, and user.username
\* raises; with a wrong password the view reaches its end and returns None,
\* which Flask refuses: either way the client gets a 500.
login(data) ==
    /\ LET user == FirstByUsername(auth.users, data.username)
           served(tokens, response) ==
               auth' = [auth EXCEPT !.tokens = tokens, !.before = auth.users,
                                    !.call = [op |-> "login",
                                              username |-> data.username,
                                              password |-> data.password,
                                              identity |-> None],
                                    !.response = response]
       IN  IF data.username = None \/ data.password = None
           THEN served(auth.tokens,
                       AuthResponse(400, "Missing username or password", None))
           ELSE IF user = NoUser
           THEN served(auth.tokens,
                       AuthResponse(500, "AttributeError: 'NoneType' object has no attribute 'username'", None))
           ELSE IF Strip(user.username) = Strip(data.username)
           THEN IF Strip(user.password) = Strip(data.password)
                THEN served(auth.tokens \cup {create_access_token(user.username)},
                            AuthResponse(200, "acess token",
                                         create_access_token(user.username)))
                ELSE served(auth.tokens,
                            AuthResponse(500, "TypeError: the view function did not return a valid response", None))
           ELSE served(auth.tokens, AuthResponse(401, "Invalid credentials", None))
    /\ UNCHANGED <<request, outcome, db, run, hv, log>>

\* DELETE /account with a token login issued (jwt_required lets no other in)
delete_account(token) ==
    /\ token \in auth.tokens
    /\ LET user_id == token
           user == QueryGet(auth.users, user_id)
           served(users, response) ==
               auth' = [auth EXCEPT !.users = users, !.before = auth.users,
                                    !.call = [op |-> "delete", username |-> None,
                                              password |-> None,
                                              identity |-> user_id],
                                    !.response = response]
       IN  IF ~user.ok THEN served(auth.users, AuthResponse(500, user.exc, None))
           ELSE IF user.value # NoUser
           THEN served(auth.users \ {user.value},
                       AuthResponse(200, "deleted sucessfully", None))
           ELSE served(auth.users, AuthResponse(404, "User not found", None))
    /\ UNCHANGED <<request, outcome, db, run, hv, log>>

---------------------------------------------------------------------------
(* Actions *)

\* QueryParametersModel(**data).model_dump() on a request
Validate ==
    /\ outcome = Pending
    /\ outcome' = QueryParametersModel(request)
    /\ UNCHANGED <<request, db, run, hv, log, auth>>

\* save_table_sql(opcao) is called: the option is checked, the locals are set
BulkStart(r, opcao) ==
    /\ run[r].pc = "idle"
    /\ IF ~InOptionMap(opcao)
       THEN run' = [run EXCEPT ![r] = [IdleRun EXCEPT !.pc = "done",
                                           !.opcao = opcao,
                                           !.response = BadOptionResponse(opcao)]]
       ELSE run' = [run EXCEPT ![r] = [IdleRun EXCEPT !.pc = "loop",
                                                      !.opcao = opcao]]
    /\ UNCHANGED <<request, outcome, db, hv, log, auth>>

\* one iteration of the loop of run r
BulkIteration(r, page, writeOk) ==
    /\ run[r].pc = "loop"
    /\ run[r].i <= Len(Iterations(run[r].opcao))
    /\ LET res == Iterate(run[r], db, page, writeOk)
           it == Iterations(run[r].opcao)[run[r].i]
       IN  /\ run' = [run EXCEPT ![r] = res.loc]
           /\ db' = res.store
           /\ log' = Append(log, [run |-> r, opcao |-> run[r].opcao,
                                  ano |-> it.ano, sub_opt |-> it.sub_opt,
                                  outcome |-> res.outcome, mode |-> res.mode,
                                  page |-> page,
                                  url |-> build_full_url(
                                      BulkParameters(run[r].opcao, it.ano,
                                                     it.sub_opt))])
    /\ UNCHANGED <<request, outcome, hv, auth>>

\* the loop is over: save_table_sql returns
BulkReturn(r) ==
    /\ run[r].pc = "loop"
    /\ run[r].i > Len(Iterations(run[r].opcao))
    /\ run' = [run EXCEPT ![r].pc = "done", ![r].response = BulkResponse(run[r])]
    /\ UNCHANGED <<request, outcome, db, hv, log, auth>>

\* scrap_content: the query string is validated; a valid one goes on to
\* scrape_table_content, which builds the URL; an invalid one is answered 422
HarvestRequest(data) ==
    /\ hv.pc \in {"idle", "done"}
    /\ request' = data
    /\ outcome' = QueryParametersModel(data)
    /\ hv' = IF outcome'.ok
             THEN [IdleHarvest EXCEPT !.pc = "fetch", !.params = outcome'.params,
                                      !.url = build_full_url(outcome'.params)]
             ELSE [IdleHarvest EXCEPT !.pc = "done",
                                      !.response = ErrorResponse(422, "Validation failed")]
    /\ UNCHANGED <<db, run, log, auth>>

\* scrape_table_content: requests.get and the extraction from what it gave
HarvestFetch(page) ==
    /\ hv.pc = "fetch"
    /\ LET live == LiveExtract(hv.params, page)
       IN  hv' = IF live.ok
                 THEN [hv EXCEPT !.pc = "done", !.page = page, !.fetches = @ + 1,
                                 !.response = DataResponse(hv.params, live.value[1],
                                                           live.value[2], live.value[3])]
                 ELSE [hv EXCEPT !.pc = "fallback", !.page = page, !.fetches = @ + 1]
    /\ UNCHANGED <<request, outcome, db, run, log, auth>>

\* scrape_table_content: the except branch, get_table_sql and the response
HarvestFallback(connected) ==
    /\ hv.pc = "fallback"
    /\ LET sql == get_table_sql(hv.params, db, connected)
       IN  hv' = [hv EXCEPT !.pc = "done", !.queries = @ + 1,
                            !.queried = hv.params, !.sql = sql,
                            !.response = FallbackResponse(hv.params, sql)]
    /\ UNCHANGED <<request, outcome, db, run, log, auth>>

---------------------------------------------------------------------------
(* Specifications *)

\* The validator alone, on every request of Requests.
InitValidate ==
    /\ request \in Requests
    /\ outcome = Pending
    /\ db = EmptyStore
    /\ run = [r \in RunIds |-> IdleRun]
    /\ hv = IdleHarvest
    /\ log = <<>>
    /\ auth = NoAuth

NextValidate == Validate

SpecValidate == InitValidate /\ [][NextValidate]_vars

InitIdle ==
    /\ request = NoRequest
    /\ outcome = Pending
    /\ db = EmptyStore
    /\ run = [r \in RunIds |-> IdleRun]
    /\ hv = IdleHarvest
    /\ log = <<>>
    /\ auth = NoAuth

BulkOptionInputs == {OptionNames[i] : i \in 1..Len(OptionNames)} \cup {NotAnOption}

\* One call of save_table_sql on an empty store, under every answer of the
\* site and every failure of a write.
NextBulk ==
    \/ \E o \in BulkOptionInputs : BulkStart(1, o)
    \/ \E p \in BulkPages(run[1].opcao), w \in BOOLEAN : BulkIteration(1, p, w)
    \/ BulkReturn(1)

SpecBulk == InitIdle /\ [][NextBulk]_vars

\* A call of save_table_sql seeds the store; harvest calls are then served
\* one after the other.
NextHarvest ==
    \/ \E o \in BulkOptionInputs : hv.pc = "idle" /\ BulkStart(1, o)
    \/ \E p \in Pages(run[1].opcao) :
          /\ hv.pc = "idle"
          /\ run[1].pc = "loop"
          /\ run[1].i <= Len(Iterations(run[1].opcao))
          /\ p \in SeedPages(run[1].opcao, Iterations(run[1].opcao)[run[1].i])
          /\ BulkIteration(1, p, TRUE)
    \/ hv.pc = "idle" /\ BulkReturn(1)
    \/ \E d \in HarvestRequests : run[1].pc # "loop" /\ HarvestRequest(d)
    \/ \E p \in Pages(hv.params.original_option) : HarvestFetch(p)
    \/ \E c \in BOOLEAN : HarvestFallback(c)

Spec == InitIdle /\ [][NextHarvest]_vars

\* scrape_table_content on every body of BodyPages for the three options of
\* the category branch and on every body of CountryBodyPages for the two of
\* the country branch: the call starts after validation, with the URL built.
InitExtract ==
    /\ request \in [option : {OptionNames[i] : i \in 1..Len(OptionNames)},
                    year : {None}, sub_option : {None}, extra : {FALSE}]
    /\ outcome = QueryParametersModel(request)
    /\ db = EmptyStore
    /\ run = [r \in RunIds |-> IdleRun]
    /\ hv = [IdleHarvest EXCEPT !.pc = "fetch", !.params = outcome.params,
                                !.url = build_full_url(outcome.params)]
    /\ log = <<>>
    /\ auth = NoAuth

NextExtract ==
    \/ \E p \in BodyPagesOf(hv.params.original_option) : HarvestFetch(p)
    \/ \E connected \in BOOLEAN : HarvestFallback(connected)

SpecExtract == InitExtract /\ [][NextExtract]_vars

\* The account routes, called in any order.
NextAuth ==
    \/ \E d \in Credentials, commitOk \in BOOLEAN : register(d, commitOk)
    \/ \E d \in Credentials : login(d)
    \/ \E t \in Usernames : delete_account(t)

SpecAuth == InitIdle /\ [][NextAuth]_vars

\* A call of save_table_sql that completes, then a second call for the same
\* option during which one harvest call of that option is served.  The first
\* call stores every iteration; the second meets failing fetches too.
GoodPage(opcao) == IF IsCountryOption(opcao) THEN PageCty2 ELSE PageCat2

NextOverlap ==
    \/ \E o \in {producao, importacao} : BulkStart(1, o)
    \/ BulkIteration(1, GoodPage(run[1].opcao), TRUE)
    \/ BulkReturn(1)
    \/ run[1].pc = "done" /\ BulkStart(2, run[1].opcao)
    \/ \E p \in {NetError, GoodPage(run[2].opcao)} : BulkIteration(2, p, TRUE)
    \/ BulkReturn(2)
    \/ \E d \in HarvestRequests :
          /\ run[2].pc = "loop"
          /\ run[2].fg = 1
          /\ hv.pc = "idle"
          /\ d.option = run[2].opcao
          /\ HarvestRequest(d)
    \/ \E p \in {NetError, GoodPage(hv.params.original_option)} : HarvestFetch(p)
    \/ \E c \in BOOLEAN : HarvestFallback(c)

SpecOverlap == InitIdle /\ [][NextOverlap]_vars

\* Two calls of save_table_sql served at the same time (one thread each),
\* their iterations interleaved.
NextConcurrent ==
    \/ \E r \in RunIds, o \in {producao, comercializacao} : BulkStart(r, o)
    \/ \E r \in RunIds, p \in {NetError, PageCat1} : BulkIteration(r, p, TRUE)
    \/ \E r \in RunIds : BulkReturn(r)

SpecConcurrent == InitIdle /\ [][NextConcurrent]_vars

---------------------------------------------------------------------------
(* Properties *)

\* whether the inner try block of scrape_table_content raises on a page
LiveRaises(parameters_sent, page) ==
    \/ page.net = "error"
    \/ ~get_table_headers(page).ok
    \/ ~get_table_footers(page).ok
    \/ ~get_data_table(parameters_sent, page).ok

\* a scrape_table_content call has returned
HarvestDone == hv.pc = "done" /\ outcome.ok

\* ... after its fallback query came back with rows / with an error
FallbackServed == HarvestDone /\ hv.queries = 1 /\ hv.sql.ok

FallbackFailed == HarvestDone /\ hv.queries = 1 /\ ~hv.sql.ok

\* the stored rows the fallback query of the finished call matched (the store
\* does not change once harvest calls are served)
Matched ==
    QueryRows(hv.params, db[hv.params.original_option],
              SqlYear(hv.params.original_year).val)

\* C1: in every scrape_table_content call the live source is fetched exactly
\* once and never a second time; get_table_sql is called at most once, with
\* the descriptor of the call, and it is called if and only if the fetch or
\* the extraction of headers, footers or body raised.
C1_FetchOnceFallbackIffLiveRaised ==
    /\ hv.fetches <= 1
    /\ hv.queries <= 1
    /\ hv.pc = "fallback" => hv.fetches = 1 /\ hv.queries = 0
    /\ HarvestDone =>
          /\ hv.fetches = 1
          /\ (hv.queries = 1) <=> LiveRaises(hv.params, hv.page)
          /\ hv.queries = 1 => hv.queried = hv.params
          /\ hv.queries = 0 => hv.response.kind = "data"

\* a call whose live extraction raised and whose fallback returned the rows
C1_Witness ==
    /\ FallbackServed
    /\ hv.page = PageCatOrphan
    /\ hv.response.kind = "data"

\* C2: when the live path fails and the query of get_table_sql fails too,
\* the call ends in an error outcome (not a success response) whose message
\* is the message of the persistence failure.
C2_FallbackErrorSurfaced ==
    FallbackFailed =>
        /\ hv.response.kind = "error"
        /\ hv.response.status >= 400
        /\ hv.response.error = hv.sql.msg

\* C3: when save_table_sql stored page P for (option, year, sub-option) and a
\* later call for the same descriptor is served by the fallback, the headers,
\* footers and rows it returns are the ones live extraction from P returns.
C3_FallbackEqualsLive ==
    FallbackServed =>
        \A i \in 1..Len(log) :
            ( /\ log[i].outcome = "written"
              /\ log[i].opcao = hv.params.original_option
              /\ PyStr(log[i].ano) = hv.params.original_year
              /\ log[i].sub_opt = hv.params.original_sub_option
              /\ LiveExtract(hv.params, log[i].page).ok )
            => LET live == LiveExtract(hv.params, log[i].page).value
               IN  /\ hv.response.headers = live[1]
                   /\ hv.response.footers = live[2]
                   /\ Len(hv.response.rows) = Len(live[3])
                   /\ \A k \in 1..Len(live[3]) :
                         /\ Len(hv.response.rows[k]) = Len(live[3][k])
                         /\ hv.response.rows[k] = live[3][k]

\* C4: for a fallback query that matches N >= 2 stored rows, get_table_sql
\* returns exactly N - 2 data rows: the matched rows without the first and
\* the last, in stored order.
C4_FallbackStripsFirstAndLast ==
    (FallbackServed /\ Len(Matched) >= 2) =>
        /\ Len(hv.sql.rows) = Len(Matched) - 2
        /\ \A k \in 1..(Len(Matched) - 2) :
              k <= Len(hv.sql.rows)
                 => hv.sql.rows[k] = SelectedValues(hv.params, Matched[k + 1])

Attempts(r) == SelectSeq(log, LAMBDA e : e.run = r)

\* the to_sql calls run r has made, in order
Writes(r) == SelectSeq(log, LAMBDA e : e.run = r /\ e.mode # "none")

IsWritten(e) == e.outcome = "written"

\* the (year, sub-option) pairs C6 names for an option, among the years of
\* the model
ClaimedPairs(opcao) ==
    {<<y, s>> : y \in {a \in LoopYears : 1970 <= a /\ a <= 2023},
                s \in IF opcao \in {producao, comercializacao} THEN {None}
                      ELSE {sub_options_keys(opcao)[k] :
                               k \in 1..Len(sub_options_keys(opcao))}}

\* C6: for each of the five options save_table_sql attempts one iteration
\* for every year from 1970 through 2023 and, for an option with sub-options,
\* for every sub-option of it in each of those years; when every fetch and
\* write succeeds the processed list holds every such pair exactly once.
C6_BulkCoversEveryYearAndSubOption ==
    \A r \in RunIds :
        (run[r].pc = "done" /\ run[r].response.status = 200) =>
            LET att == Attempts(r)
                claimed == ClaimedPairs(run[r].opcao)
            IN  /\ \A c \in claimed :
                      Cardinality({k \in 1..Len(att) :
                                      att[k].ano = c[1] /\ att[k].sub_opt = c[2]}) = 1
                /\ \A k \in 1..Len(att) : <<att[k].ano, att[k].sub_opt>> \in claimed
                /\ run[r].errors = <<>> =>
                      /\ Len(run[r].anos_processados) = Cardinality(claimed)
                      /\ \A c \in claimed :
                            \E k \in 1..Len(run[r].anos_processados) :
                               run[r].anos_processados[k] =
                                  ProcessedEntry(run[r].opcao,
                                                 [ano |-> c[1], sub_opt |-> c[2]])

\* C7: a fetch, parsing or write failure of one iteration never ends the
\* run: it adds one entry to the error list, every later iteration is still
\* attempted, every iteration that succeeded is in the processed list, and
\* the call returns the processed list with the error list (None when no
\* iteration failed).
C7_BulkToleratesFailures ==
    \A r \in RunIds :
        (run[r].pc \in {"loop", "done"} /\ InOptionMap(run[r].opcao)) =>
            LET att == Attempts(r)
                its == Iterations(run[r].opcao)
                good == SelectSeq(att, IsWritten)
                bad == SelectSeq(att, LAMBDA e : ~IsWritten(e))
            IN  /\ Len(att) <= Len(its)
                /\ \A k \in 1..Len(att) :
                      att[k].ano = its[k].ano /\ att[k].sub_opt = its[k].sub_opt
                /\ Len(run[r].errors) = Len(bad)
                /\ run[r].anos_processados =
                      [k \in 1..Len(good) |-> ProcessedEntry(run[r].opcao, good[k])]
                /\ run[r].pc = "done" =>
                      /\ Len(att) = Len(its)
                      /\ run[r].response.status = 200
                      /\ run[r].response.anos_processados = run[r].anos_processados
                      /\ run[r].response.errors =
                            IF bad = <<>> THEN None ELSE run[r].errors

\* a run that returned after its first iteration failed and a later one
\* was stored
C7_Witness ==
    /\ run[1].pc = "done"
    /\ Len(log) >= 2
    /\ ~IsWritten(log[1])
    /\ \E k \in 2..Len(log) : IsWritten(log[k])
    /\ run[1].response.errors # None

\* C8: within one run, whatever iterations fail, the first write that
\* succeeds uses replace and it is the only successful write that does; every
\* successful write after it uses append; a replace that fails is followed
\* by another replace, never by an append.
C8_ReplaceThenAppend ==
    \A r \in RunIds :
        LET w == Writes(r)
            okw == SelectSeq(w, IsWritten)
        IN  /\ \A k \in 1..Len(okw) :
                  okw[k].mode = IF k = 1 THEN "replace" ELSE "append"
            /\ \A k \in 1..(Len(w) - 1) :
                  (w[k].mode = "replace" /\ ~IsWritten(w[k]))
                      => w[k + 1].mode = "replace"

\* a replace that failed, then a replace that succeeded, then an append
C8_Witness ==
    LET w == Writes(1)
    IN  /\ Len(w) >= 3
        /\ w[1].mode = "replace" /\ ~IsWritten(w[1])
        /\ w[2].mode = "replace" /\ IsWritten(w[2])
        /\ w[3].mode = "append" /\ IsWritten(w[3])

\* C9: two runs of save_table_sql for the same option are serialized on the
\* snapshot table: the writes of one never come between the writes of the
\* other, and no run's replace drops rows that a run still in its loop has
\* written.
C9_BulkRunsSerialized ==
    /\ \A i, j, k \in 1..Len(log) :
          ( /\ i < j /\ j < k
            /\ IsWritten(log[i]) /\ IsWritten(log[j]) /\ IsWritten(log[k])
            /\ log[i].opcao = log[j].opcao /\ log[j].opcao = log[k].opcao
            /\ log[i].run = log[k].run )
          => log[j].run = log[i].run
    /\ \A i \in 1..Len(log) :
          LET last == log[Len(log)]
          IN  ( /\ i < Len(log)
                /\ IsWritten(log[i]) /\ IsWritten(last)
                /\ last.mode = "replace"
                /\ log[i].opcao = last.opcao
                /\ log[i].run # last.run )
              => run[log[i].run].pc # "loop"

\* C10: for a supplied year that int() reads as y, the year is accepted
\* exactly when 1970 <= y <= 2024 for importacao and exportacao and exactly
\* when 1970 <= y <= 2023 for the other three options; every other y fails
\* with the out-of-range error that names the bounds of the option, and a
\* year int() cannot read fails with the invalid-year error.
C10_YearRangePerOption ==
    ( /\ outcome # Pending
      /\ ~request.extra
      /\ InOptionMap(request.option)
      /\ request.year # None )
    => LET y == PyInt(request.year)
           hi == IF request.option \in {importacao, exportacao} THEN 2024 ELSE 2023
           yearRejected == outcome.err.kind \in {"InvalidYear", "YearOutOfRange"}
       IN  IF ~y.ok THEN outcome.err = Err("InvalidYear", 0, 0, <<>>)
           ELSE IF 1970 <= y.val /\ y.val <= hi THEN ~yearRejected
           ELSE outcome.err = Err("YearOutOfRange", 1970, hi, <<>>)

\* importacao with the year 2024 has been validated and accepted
C10_Witness ==
    /\ outcome.ok
    /\ request.option = importacao
    /\ request.year = <<"2","0","2","4">>
    /\ outcome.params.year = <<"a","n","o","=","2","0","2","4">>

\* the request named an option of option_map and no unknown parameter
OptionAccepted == ~request.extra /\ InOptionMap(request.option)

\* the validation did not stop at the year
YearPassed == outcome.err.kind \notin {"InvalidYear", "YearOutOfRange"}

\* C11: when year is absent the validated descriptor's year is the most
\* recent year of the option's range, 2024 for importacao and exportacao and
\* 2023 for the other options, in original_year and in year.
C11_DefaultYearIsMostRecent ==
    (outcome.ok /\ request.year = None) =>
        LET y == IF request.option \in {importacao, exportacao}
                 THEN <<"2","0","2","4">> ELSE <<"2","0","2","3">>
        IN  /\ outcome.params.original_year = y
            /\ outcome.params.year = <<"a","n","o","=">> \o y

\* C12: for processamento, importacao and exportacao with no sub_option, the
\* original sub-option is the first key of the option's dictionary in
\* declaration order (viniferas, vinhos_de_mesa, vinhos_de_mesa) and the
\* sub-option is that key's code; the absent sub-option never fails.
C12_DefaultSubOptionIsFirstDeclared ==
    ( /\ outcome # Pending /\ OptionAccepted /\ YearPassed
      /\ request.option \in {processamento, importacao, exportacao}
      /\ request.sub_option = None )
    => /\ outcome.ok
       /\ outcome.params.original_sub_option =
             IF request.option = processamento THEN viniferas ELSE vinhos_de_mesa
       /\ outcome.params.sub_option =
             <<"s","u","b","o","p","c","a","o","=","s","u","b","o","p","t","_","0","1">>

\* processamento without sub_option has been validated
C12_Witness ==
    /\ outcome.ok
    /\ request.option = processamento
    /\ request.sub_option = None
    /\ outcome.params.original_sub_option = viniferas

\* C13: for producao and comercializacao every supplied sub_option, the
\* empty string and the sub-options of other options included, fails with the
\* sub-option-not-allowed error (once option and year have passed); the
\* validation succeeds, with a null sub-option, only when sub_option is absent.
C13_SubOptionNotAllowed ==
    ( /\ outcome # Pending /\ OptionAccepted
      /\ request.option \in {producao, comercializacao} )
    => /\ request.sub_option # None =>
             /\ ~outcome.ok
             /\ YearPassed => outcome.err = Err("SubOptionNotAllowed", 0, 0, <<>>)
       /\ (request.sub_option = None /\ YearPassed) =>
             /\ outcome.ok
             /\ outcome.params.sub_option = None
             /\ outcome.params.original_sub_option = None

\* producao with the empty string as sub_option has been rejected
C13_Witness ==
    /\ request.option = producao
    /\ request.sub_option = <<>>
    /\ ~request.extra
    /\ outcome.err.kind = "SubOptionNotAllowed"

\* the sub-options the claim lists for each option
OwnSubOptions(o) ==
    CASE o = processamento ->
            {viniferas, americanas_e_hibridas, uvas_de_mesa, sem_classificacao}
      [] o = importacao ->
            {vinhos_de_mesa, espumantes, uvas_frescas, uvas_passas, suco_de_uva}
      [] o = exportacao ->
            {vinhos_de_mesa, espumantes, uvas_frescas, suco_de_uva}
      [] OTHER -> {}

\* C14: for processamento, importacao and exportacao a supplied sub_option is
\* accepted exactly when it belongs to the option's own set; any other value
\* (uvas_passas for exportacao, for one) fails with the invalid-sub-option
\* error that lists the allowed set of the option.
C14_SubOptionOfOwnSet ==
    ( /\ outcome # Pending /\ OptionAccepted /\ YearPassed
      /\ request.option \in {processamento, importacao, exportacao}
      /\ request.sub_option # None )
    => IF request.sub_option \in OwnSubOptions(request.option)
       THEN outcome.ok /\ outcome.params.original_sub_option = request.sub_option
       ELSE /\ ~outcome.ok
            /\ outcome.err.kind = "InvalidSubOption"
            /\ {outcome.err.allowed[k] : k \in 1..Len(outcome.err.allowed)}
                  = OwnSubOptions(request.option)

\* exportacao with uvas_passas has been rejected
C14_Witness ==
    /\ request.option = exportacao
    /\ request.sub_option = uvas_passas
    /\ ~request.extra
    /\ outcome.err.kind = "InvalidSubOption"

\* the request's option is missing or is no key of option_map
OptionBad == request.option = None \/ ~InOptionMap(request.option)

\* the request's year is supplied and is no integer of the option's range
YearBad ==
    /\ request.year # None
    /\ LET y == PyInt(request.year)
           hi == IF request.option \in {importacao, exportacao} THEN 2024 ELSE 2023
       IN  ~y.ok \/ y.val < 1970 \/ y.val > hi

\* the request's sub_option is supplied and is not one the option allows
SubOptionBad ==
    /\ request.sub_option # None
    /\ request.sub_option \notin OwnSubOptions(request.option)

IsPrefix(p, t) == Len(p) <= Len(t) /\ SubSeq(t, 1, Len(p)) = p

\* C15: validation returns a descriptor with all three fields validated and
\* transformed, or it fails and returns no descriptor; when more than one of
\* option, year and sub_option is invalid the error is that of the earliest
\* invalid field in the order option, year, sub_option.
C15_AtomicFirstErrorInOrder ==
    (outcome # Pending /\ ~request.extra) =>
        /\ outcome.ok <=> ~(OptionBad \/ YearBad \/ SubOptionBad)
        /\ outcome.ok =>
              /\ outcome.err.kind = "none"
              /\ IsPrefix(<<"o","p","c","a","o","=">>, outcome.params.option)
              /\ IsPrefix(<<"a","n","o","=">>, outcome.params.year)
              /\ \/ outcome.params.sub_option = None
                 \/ IsPrefix(<<"s","u","b","o","p","c","a","o","=">>,
                             outcome.params.sub_option)
        /\ ~outcome.ok => outcome.params = NoParams
        /\ OptionBad => outcome.err.kind \in {"MissingOption", "InvalidOption"}
        /\ (~OptionBad /\ YearBad) =>
              outcome.err.kind \in {"InvalidYear", "YearOutOfRange"}
        /\ (~OptionBad /\ ~YearBad /\ SubOptionBad) =>
              outcome.err.kind \in {"InvalidSubOption", "SubOptionNotAllowed"}

\* a request whose year and sub_option are both invalid got the year's error
C15_Witness ==
    /\ ~request.extra /\ ~OptionBad /\ YearBad /\ SubOptionBad
    /\ outcome.err.kind = "InvalidYear"
    /\ outcome.params = NoParams

\* the code the claims give for each option
ClaimedOptionCode(o) ==
    <<"o","p","c","a","o","=","o","p","t","_","0">> \o
    CASE o = producao -> <<"2">>
      [] o = processamento -> <<"3">>
      [] o = comercializacao -> <<"4">>
      [] o = importacao -> <<"5">>
      [] o = exportacao -> <<"6">>

\* C16: whenever validation succeeds the original fields are what the caller
\* supplied: original_option is the option token, original_year the year
\* text (the default year the descriptor carries when absent),
\* original_sub_option the sub-option (the default when absent, null when the
\* option has none); and option is the fixed code of original_option.
C16_OriginalsAreSupplied ==
    outcome.ok =>
        /\ outcome.params.original_option = request.option
        /\ outcome.params.option = ClaimedOptionCode(outcome.params.original_option)
        /\ request.year # None => outcome.params.original_year = request.year
        /\ request.year = None =>
              /\ outcome.params.original_year # None
              /\ PyInt(outcome.params.original_year).ok
        /\ outcome.params.year = <<"a","n","o","=">> \o outcome.params.original_year
        /\ request.sub_option # None =>
              outcome.params.original_sub_option = request.sub_option
        /\ request.sub_option = None =>
              outcome.params.original_sub_option =
                 CASE request.option = processamento -> viniferas
                   [] request.option \in {importacao, exportacao} -> vinhos_de_mesa
                   [] OTHER -> None

\* a year sent with a leading blank has been accepted and kept as sent
C16_Witness ==
    /\ outcome.ok
    /\ request.year = <<" ","2","0","2","4">>
    /\ outcome.params.original_year = <<" ","2","0","2","4">>
    /\ request.sub_option = uvas_passas

\* C17: a request that holds any key other than option, year and sub_option
\* fails validation whatever the values of the three known keys, and no
\* descriptor is produced.
C17_UnknownKeyRejected ==
    (outcome # Pending /\ request.extra) =>
        /\ ~outcome.ok
        /\ outcome.err.kind # "none"
        /\ outcome.params = NoParams

\* a request valid in its three known keys was rejected for its unknown key
C17_Witness ==
    /\ request.extra
    /\ ~(OptionBad \/ YearBad \/ SubOptionBad)
    /\ request.sub_option = espumantes
    /\ outcome.err.kind = "UnknownParameter"

\* the URL the claim gives for a descriptor
ClaimedUrl(d) ==
    LET base == PARTIAL_URL \o d.option \o <<"&">> \o d.year
    IN  IF d.sub_option = None THEN base
        ELSE base \o <<"&">> \o d.sub_option

\* C18: build_full_url returns base + option + '&' + year when the
\* descriptor's sub-option is absent and that text + '&' + sub-option when
\* it is present, for the descriptors of scrape_table_content and of
\* save_table_sql; building the URL fetches nothing, queries nothing and
\* leaves the descriptor as it was.
C18_UrlIsConcatenation ==
    /\ hv.pc \in {"fetch", "fallback"} =>
          /\ hv.url = ClaimedUrl(hv.params)
          /\ hv.params = outcome.params
    /\ hv.pc = "fetch" => hv.fetches = 0 /\ hv.queries = 0
    /\ \A k \in 1..Len(log) :
          log[k].url = ClaimedUrl(BulkParameters(log[k].opcao, log[k].ano,
                                                 log[k].sub_opt))

\* the URL of importacao, 2024, espumantes has been built, nothing fetched yet
C18_Witness ==
    /\ hv.pc = "fetch"
    /\ hv.fetches = 0
    /\ hv.url = PARTIAL_URL \o
          <<"o","p","c","a","o","=","o","p","t","_","0","5","&",
            "a","n","o","=","2","0","2","4","&",
            "s","u","b","o","p","c","a","o","=","s","u","b","o","p","t","_","0","2">>

\* the code the claim gives for the k-th sub-option of a list
ClaimedSubOptionCode(k) ==
    <<"s","u","b","o","p","c","a","o","=","s","u","b","o","p","t","_","0">>
        \o <<DigitChars[k + 1]>>

\* C19: for every valid (option, sub-option) pair the validator's sub_option
\* is 'subopcao=subopt_0k' with k the 1-based position of the sub-option in
\* the option's declared list, and option is opt_02 .. opt_06 for producao,
\* processamento, comercializacao, importacao, exportacao; so two distinct
\* sub-options of one option never get the same code.
C19_CodesArePositional ==
    outcome.ok =>
        /\ outcome.params.option = ClaimedOptionCode(request.option)
        /\ outcome.params.original_sub_option # None =>
              LET keys == sub_options_keys(request.option)
              IN  \E k \in 1..Len(keys) :
                     /\ keys[k] = outcome.params.original_sub_option
                     /\ outcome.params.sub_option = ClaimedSubOptionCode(k)
        /\ \A a, b \in OwnSubOptions(request.option) :
              a # b => sub_options_value(request.option, a)
                          # sub_options_value(request.option, b)

\* exportacao with suco_de_uva, its fourth sub-option, has been validated
C19_Witness ==
    /\ outcome.ok
    /\ request.option = exportacao
    /\ request.sub_option = suco_de_uva
    /\ outcome.params.sub_option =
          <<"s","u","b","o","p","c","a","o","=","s","u","b","o","p","t","_","0","4">>

\* the item cells / sub-item cells of a body row, stripped
ItemTexts(row) == Texts(CellsOfClass(row, "tb_item"))

SubitemTexts(row) == Texts(CellsOfClass(row, "tb_subitem"))

\* the rows that open a category, and the rows that carry a sub-item
ItemIdx(rows) == {i \in 1..Len(rows) : Len(ItemTexts(rows[i])) >= 2}

SubitemIdx(rows) == {j \in 1..Len(rows) : Len(SubitemTexts(rows[j])) >= 2}

\* the p-th smallest member of a set of indices
Nth(S, p) == CHOOSE i \in S : Cardinality({j \in S : j < i}) = p - 1

InOrder(S) == [p \in 1..Cardinality(S) |-> Nth(S, p)]

\* the item row that opened the category row j falls under (0: none has)
Owner(rows, j) ==
    LET before == {i \in ItemIdx(rows) : i < j}
    IN  IF before = {} THEN 0
        ELSE CHOOSE i \in before : \A k \in before : k <= i

\* the label -> value pairs of the sub-item rows under item row i, in order
PairsUnder(rows, i) ==
    LET mine == InOrder({j \in SubitemIdx(rows) : Owner(rows, j) = i})
    IN  [p \in 1..Len(mine) |->
            <<SubitemTexts(rows[mine[p]])[1], SubitemTexts(rows[mine[p]])[2]>>]

ClaimedKey(row) == ItemTexts(row)[1] \o <<" ", ":", " ">> \o ItemTexts(row)[2]

\* the call answered from the live page
LiveServed == hv.pc = "done" /\ hv.queries = 0 /\ hv.response.kind = "data"

\* the call is one of the category branch / of the country branch
CategoryCall == hv.params.original_option \in {producao, processamento, comercializacao}

CountryCall == hv.params.original_option \in {importacao, exportacao}

\* C20 as stated: under the category discipline get_data_table returns, in
\* encounter order, one ("<label> : <value>", mapping) pair for each item row
\* with at least 2 item cells, the mapping holding the label -> value pairs
\* of exactly the sub-item rows with at least 2 sub-item cells between that
\* item row and the next opened category; other rows contribute nothing.
C20_OnePairPerItemRow ==
    (LiveServed /\ CategoryCall) =>
        LET rows == hv.page.rows
            opened == InOrder(ItemIdx(rows))
        IN  hv.response.rows =
               [p \in 1..Len(opened) |->
                   <<ClaimedKey(rows[opened[p]]), PairsUnder(rows, opened[p])>>]

\* a dict after the assignments d[a[1]] = a[2] made in the order of a: a key
\* keeps the place of its first assignment and the value of its last
DictOf(a) ==
    LET first == InOrder({i \in 1..Len(a) :
                             \A j \in 1..(i - 1) : a[j][1] # a[i][1]})
        last(k) == CHOOSE i \in 1..Len(a) :
                      /\ a[i][1] = k
                      /\ \A j \in (i + 1)..Len(a) : a[j][1] # k
    IN  [p \in 1..Len(first) |-> <<a[first[p]][1], a[last(a[first[p]][1])][2]>>]

\* a sub-item row with 2 cells comes before every opened category
HasOrphan(rows) == \E j \in SubitemIdx(rows) : Owner(rows, j) = 0

\* C20, amended: get_data_table returns the items of a dict keyed by
\* "<label> : <value>": one pair per distinct key, at the place of the first
\* item row with that key, whose mapping is that of the last item row with
\* that key (the sub-item rows between it and the next opened category; a
\* label repeated there keeps its first place and its last value).  Rows
\* with fewer than 2 relevant cells contribute nothing.  When a sub-item row
\* with 2 cells comes before every opened category, get_data_table raises.
C20_OnePairPerCategoryKey ==
    (hv.pc \in {"fallback", "done"} /\ CategoryCall) =>
        LET rows == hv.page.rows
            opened == InOrder(ItemIdx(rows))
        IN  IF HasOrphan(rows)
            THEN ~LiveServed /\ ~get_data_table(hv.params, hv.page).ok
            ELSE /\ hv.pc = "done" /\ LiveServed
                 /\ hv.response.rows =
                       DictOf([p \in 1..Len(opened) |->
                                 <<ClaimedKey(rows[opened[p]]),
                                   DictOf(PairsUnder(rows, opened[p]))>>])

\* a body with one category and one sub-item, then the same category again
\* and another sub-item, has been extracted: one pair, the later mapping
C20_Witness ==
    /\ LiveServed
    /\ hv.page.rows = <<ItemRow(TxtA, Qty7), SubitemRow(TxtB, Qty7),
                        ItemRow(TxtA, Qty7)>>
    /\ hv.response.rows = <<<< <<"A"," ",":"," ","7">>, <<>> >>>>

\* the rows of a body that have at least 3 cells, in document order
TripleIdx(rows) == {i \in 1..Len(rows) : Len(rows[i]) >= 3}

\* C21: under the country discipline get_data_table returns, in document
\* order, exactly one [country, quantity, price] triple, the first three
\* cell texts, for each body row with at least 3 cells, and nothing for a
\* row with fewer cells; it does not raise.
C21_OneTriplePerRow ==
    (hv.pc \in {"fallback", "done"} /\ CountryCall) =>
        LET rows == hv.page.rows
            full == InOrder(TripleIdx(rows))
        IN  /\ LiveServed
            /\ hv.response.rows =
                  [p \in 1..Len(full) |->
                      <<Strip(rows[full[p]][1].text), Strip(rows[full[p]][2].text),
                        Strip(rows[full[p]][3].text)>>]

\* a body with a two-cell row, a four-cell row and a three-cell row has been
\* extracted: two triples, in document order
C21_Witness ==
    /\ LiveServed /\ CountryCall
    /\ hv.page.rows = << <<Cell("", TxtB), Cell("", Qty7)>>,
                         CountryRow(TxtC, Qty2000, Qty7) \o <<Cell("", TxtTotal)>>,
                         CountryRow(TxtA, Qty7, Qty1500) >>
    /\ hv.response.rows = << <<TxtC, Qty2000, <<"7">>>>, <<TxtA, <<"7">>, Qty1500>> >>

\* C24: extraction under the category discipline never raises on a body
\* whose rows are malformed or out of order: a sub-item row with 2 cells that
\* comes before any opened category is skipped, and the call is answered from
\* the live page, the fallback never queried.
C24_OrphanSubitemSkipped ==
    (hv.pc \in {"fallback", "done"} /\ CategoryCall) =>
        /\ hv.pc = "done" => LiveServed
        /\ hv.pc = "fallback" => FALSE
        /\ get_data_table(hv.params, hv.page).ok

\* the login call just served named a registered user and that user's
\* password
CredentialsMatch ==
    \E u \in auth.before :
        u.username = auth.call.username /\ u.password = auth.call.password

\* C22: POST /login with credentials that match no registered user (an
\* unknown username, or a registered one with a wrong password) is answered
\* 401 'Invalid credentials' and gets no token; a token is issued only when
\* username and password both match.
C22_LoginRejectsBadCredentials ==
    ( /\ auth.call.op = "login"
      /\ auth.call.username # None /\ auth.call.password # None )
    => /\ ~CredentialsMatch =>
             /\ auth.response.status = 401
             /\ auth.response.body = "Invalid credentials"
             /\ auth.response.token = None
       /\ auth.response.token # None => CredentialsMatch

\* the accounts the delete call just served has removed
Removed == auth.before \ auth.users

\* the accounts, before the call, of the user the token was issued to
AccountsOfCaller == {u \in auth.before : u.username = auth.call.identity}

\* C23: after any register and login calls, DELETE /account with a token
\* login issued to user u removes the account of u and no other account, and
\* answers 200; it answers 404 only when the account of u no longer exists.
C23_DeleteRemovesOwnAccount ==
    auth.call.op = "delete" =>
        /\ auth.users \subseteq auth.before
        /\ Removed = AccountsOfCaller
        /\ AccountsOfCaller # {} => auth.response.status = 200
        /\ AccountsOfCaller = {} => auth.response.status = 404

---------------------------------------------------------------------------
(* save_table_sql against the validator *)

\* The descriptor harvest would have for what an iteration of save_table_sql
\* fetches: the validator applied to the iteration's option, year and
\* sub-option.
DescriptorOf(e) ==
    QueryParametersModel([option |-> e.opcao, year |-> PyStr(e.ano),
                          sub_option |-> e.sub_opt, extra |-> FALSE])

\* C25: every iteration of save_table_sql for a year in 1970..2023 fetches
\* the URL that harvest builds from the validator's descriptor of the same
\* option, year and sub-option; and every sub-option save_table_sql iterates
\* is one the validator accepts for the option, with the validator's
\* positional code.
C25_BulkUrlIsHarvestUrl ==
    \A k \in 1..Len(log) :
        LET e == log[k]
            d == DescriptorOf(e)
        IN  /\ e.ano <= YearMax2023 =>
                 /\ d.ok
                 /\ e.url = build_full_url(d.params)
            /\ e.sub_opt # None =>
                 /\ e.sub_opt \in OwnSubOptions(e.opcao)
                 /\ BulkParameters(e.opcao, e.ano, e.sub_opt).sub_option
                      = sub_options_value(e.opcao, e.sub_opt)


---------------------------------------------------------------------------
(* get_table_sql against the frames save_table_sql builds *)

---------------------------------------------------------------------------
(* The numeric texts save_table_sql persists *)

\* a numeric text as the store should hold it: no '.' separator, and the
\* empty-value marker '-' replaced
Normalized(t) == t # <<"-">> /\ \A i \in 1..Len(t) : t[i] # "."

\* C27: every record save_table_sql has written holds a normalized quantity
\* and, in the tables of importacao and exportacao, a normalized value
\* (US$): no '.' thousands separator, '-' stored as '0'.
C27_PersistedNumbersNormalized ==
    \A o \in DOMAIN db :
        \A i \in 1..Len(db[o].rows) :
            /\ Normalized(db[o].rows[i].Quantidade)
            /\ IsCountryOption(o) => Normalized(db[o].rows[i].Valor)


---------------------------------------------------------------------------
(* The year fields of an accepted descriptor *)

\* a plain decimal numeral: digits only, at least one
PlainNumeral(t) == Len(t) > 0 /\ \A i \in 1..Len(t) : IsDigit(t[i])

\* C28: when validation succeeds, the original year is a plain decimal
\* numeral (no sign, whitespace or underscore) of an integer inside the
\* option's range, and the canonical year is 'ano=' followed by that
\* numeral.
C28_YearFieldsWellFormed ==
    outcome.ok =>
        LET oy == outcome.params.original_year
            hi == IF outcome.params.original_option \in {importacao, exportacao}
                  THEN 2024 ELSE 2023
        IN  /\ PlainNumeral(oy)
            /\ 1970 <= PyInt(oy).val /\ PyInt(oy).val <= hi
            /\ outcome.params.year = <<"a","n","o","=">> \o oy


---------------------------------------------------------------------------
(* The two lists of a save_table_sql run *)

\* the rows of the store that iteration e wrote
RowsOf(e) ==
    SelectSeq(db[e.opcao].rows,
              LAMBDA row : /\ row.Ano = e.ano
                           /\ IsCountryOption(e.opcao) => row.Categoria = e.sub_opt)

HasTwoCellRow(page) == \E i \in 1..Len(page.rows) : Len(page.rows[i]) = 2

\* C29: at every point of a run, each iteration attempted so far has added
\* one entry to one of anos_processados and errors; an iteration is in
\* anos_processados only if its write succeeded (its rows are in the table);
\* an iteration whose body has a 2-cell row under the country discipline, or
\* whose write failed, has its entry in errors and none in anos_processados.
C29_OneEntryPerIteration ==
    \A r \in RunIds :
        (run[r].pc \in {"loop", "done"} /\ InOptionMap(run[r].opcao)) =>
            LET att == Attempts(r)
                listed(e) ==
                    \E j \in 1..Len(run[r].anos_processados) :
                        run[r].anos_processados[j] = ProcessedEntry(e.opcao, e)
                failedUpTo(k) ==
                    Len(SelectSeq(SubSeq(att, 1, k), LAMBDA e : ~IsWritten(e)))
            IN  /\ Len(att) = run[r].i - 1
                /\ Len(run[r].anos_processados) + Len(run[r].errors) = Len(att)
                /\ \A k \in 1..Len(att) :
                      /\ listed(att[k]) =>
                            /\ IsWritten(att[k])
                            /\ Len(RowsOf(att[k])) > 0
                      /\ ( \/ (IsCountryOption(att[k].opcao)
                                 /\ HasTwoCellRow(att[k].page))
                           \/ att[k].outcome = "write_failed" ) =>
                            /\ ~listed(att[k])
                            /\ failedUpTo(k) \in 1..Len(run[r].errors)
                            /\ run[r].errors[failedUpTo(k)]
                                 = ErrorEntry("Exception")

\* a run in which one iteration met a 2-cell row, one write failed and one
\* iteration was stored
C29_Witness ==
    /\ run[1].pc = "loop"
    /\ \E k \in 1..Len(log) :
          IsCountryOption(log[k].opcao) /\ HasTwoCellRow(log[k].page)
    /\ \E k \in 1..Len(log) : log[k].outcome = "write_failed"
    /\ \E k \in 1..Len(log) : IsWritten(log[k])
    /\ Len(run[1].anos_processados) = 1
    /\ Len(run[1].errors) = 2


---------------------------------------------------------------------------
(* harvest during a save_table_sql run *)

\* the store after the writes of the given iterations, in order
RECURSIVE Replay(_, _)
Replay(store, entries) ==
    IF entries = <<>> THEN store
    ELSE LET e == Head(entries)
         IN  Replay(to_sql(store, e.opcao,
                           BuildFrame(e.opcao, e.ano, e.sub_opt, e.page).value,
                           e.mode),
                    Tail(entries))

\* the snapshot as the first, completed run left it
EarlierSnapshot == Replay(EmptyStore, SelectSeq(Attempts(1), IsWritten))

\* the first run persisted rows for the descriptor's year and sub-option
PersistedByEarlierRun ==
    /\ run[1].pc = "done"
    /\ SqlYear(hv.params.original_year).ok
    /\ QueryRows(hv.params, EarlierSnapshot[hv.params.original_option],
                 SqlYear(hv.params.original_year).val) # <<>>

\* C30: while a second run of save_table_sql for an option is in progress,
\* after its first replace, a harvest call of that option whose live path
\* failed and that fell back, with the database reachable, for a year and
\* sub-option the earlier completed run persisted is answered with that
\* snapshot's headers, footers and rows, not with an error or an empty
\* result.
C30_FallbackServedDuringRun ==
    ( /\ run[2].pc = "loop"
      /\ run[2].fg = 1
      /\ hv.pc = "done"
      /\ hv.queries = 1
      /\ hv.params.original_option = run[2].opcao
      /\ hv.sql.msg # "OperationalError: could not connect"
      /\ PersistedByEarlierRun )
    => /\ hv.sql.ok
       /\ hv.sql = get_table_sql(hv.params, EarlierSnapshot, TRUE)
       /\ hv.response = FallbackResponse(hv.params, hv.sql)


=============================================================================
